---------------------------- MODULE Spec2Model ----------------------------
(***************************************************************************)
(* The Think-Act-Observe agent loop of web-agent-scraper:                  *)
(*   backend/app/agent/react.py      ExecutionMetrics, ReActAgent          *)
(*   backend/app/agent/state.py      AgentState                            *)
(*   backend/app/services/runner.py  AgentRunner                           *)
(*   backend/app/tools/registry.py   ToolRegistry                          *)
(*   backend/app/tools/implementations/scraper.py  ScraperTool,           *)
(*                                    StaticScraper, BrowserManager        *)
(*   backend/app/tools/implementations/fetcher.py  FetcherTool            *)
(*   backend/main.py                 shutdown_event                        *)
(*                                                                         *)
(* Strings are modelled as sequences of chunks [a, n]: a is an atom (an    *)
(* indivisible piece of text) and n the number of times it is repeated, so *)
(* that a long run of characters or words is one chunk.  The length of a   *)
(* string is the sum of its n, slicing cuts runs, and strip / lower /      *)
(* substring tests / regular expressions act on atoms.                     *)
(***************************************************************************)
EXTENDS Integers, Sequences, FiniteSets, TLC

(***************************************************************************)
(* Text                                                                    *)
(***************************************************************************)
Ch(s) == [a |-> s, n |-> 1]

T(s) == <<Ch(s)>>

\* Python's Optional[str]: None, or a string (possibly the empty one).
None == [isNone |-> TRUE, s |-> <<>>]

Some(t) == [isNone |-> FALSE, s |-> t]

\* Python truthiness of an Optional[str]: None and "" are falsy.
Truthy(o) == ~o.isNone /\ o.s # <<>>

SpaceAtoms == {" ", "\n"}

IsSpace(c) == c.a \in SpaceAtoms

\* len(t)
RECURSIVE TextLen(_)
TextLen(t) == IF t = <<>> THEN 0 ELSE Head(t).n + TextLen(Tail(t))

\* t[:k]
RECURSIVE Take(_, _)
Take(t, k) ==
    IF k <= 0 \/ t = <<>> THEN <<>>
    ELSE IF Head(t).n <= k THEN <<Head(t)>> \o Take(Tail(t), k - Head(t).n)
    ELSE <<[a |-> Head(t).a, n |-> k]>>

\* str.lstrip()
RECURSIVE LStrip(_)
LStrip(t) == IF t # <<>> /\ IsSpace(Head(t)) THEN LStrip(Tail(t)) ELSE t

\* str.rstrip()
RECURSIVE RStrip(_)
RStrip(t) ==
    IF t # <<>> /\ IsSpace(t[Len(t)]) THEN RStrip(SubSeq(t, 1, Len(t) - 1)) ELSE t

\* str.strip()
Strip(t) == RStrip(LStrip(t))

\* str.lower() on one atom: the atoms that carry upper-case letters.
LowerAtom(s) ==
    CASE s = "Final Answer" -> "final answer"
      [] s = "FINAL ANSWER" -> "final answer"
      [] s = "FinalAnswer" -> "finalanswer"
      [] s = "Finish" -> "finish"
      [] s = "Scraper" -> "scraper"
      [] s = "PARSER" -> "parser"
      [] s = "Fetcher" -> "fetcher"
      [] s = "Test_Tool" -> "test_tool"
      [] s = "\"THOUGHT\"" -> "\"thought\""
      [] s = "Summarize" -> "summarize"
      [] s = "Scrape" -> "scrape"
      [] OTHER -> s

\* str.lower()
Lower(t) == [i \in 1..Len(t) |-> [a |-> LowerAtom(t[i].a), n |-> t[i].n]]

\* len(t.split()): the number of maximal runs of non-whitespace.  A run of
\* the atom "word" repeated n times stands for n words separated by single
\* spaces; any other non-space chunk continues the word it is in.
RECURSIVE CountWords(_, _)
CountWords(t, inWord) ==
    IF t = <<>> THEN 0
    ELSE IF IsSpace(Head(t)) THEN CountWords(Tail(t), FALSE)
    ELSE IF Head(t).a = "word"
         THEN (IF inWord THEN Head(t).n - 1 ELSE Head(t).n) + CountWords(Tail(t), TRUE)
    ELSE (IF inWord THEN 0 ELSE 1) + CountWords(Tail(t), TRUE)

WordCount(t) == CountWords(t, FALSE)

\* str(n) for the small numbers that occur as step numbers and caps
Str(k) ==
    CASE k = 0 -> "0" [] k = 1 -> "1" [] k = 2 -> "2" [] k = 3 -> "3"
      [] k = 4 -> "4" [] k = 5 -> "5" [] k = 6 -> "6" [] k = 7 -> "7"
      [] k = 8 -> "8" [] k = 9 -> "9" [] OTHER -> "n"


(***************************************************************************)
(* ReActAgent._parse_llm_response                                          *)
(***************************************************************************)
\* re.sub(fence + r"\s*", "", response): every occurrence of the fence atom
\* goes, with the whitespace that follows it.
RECURSIVE RemoveFence(_, _)
RemoveFence(t, f) ==
    IF t = <<>> THEN <<>>
    ELSE IF Head(t).a = f THEN RemoveFence(LStrip(Tail(t)), f)
    ELSE <<Head(t)>> \o RemoveFence(Tail(t), f)

\* response.strip(), then the two re.sub calls.  The atom "<fence>" is the
\* code fence of three backquotes, "<fence>json" the fence that opens a json
\* block.
CleanResponse(response) ==
    RemoveFence(RemoveFence(Strip(response), "<fence>json"), "<fence>")

Braces == {"{", "}"}

\* The least element of a set of indices, 0 for the empty set
MinIndex(S) == IF S = {} THEN 0 ELSE CHOOSE x \in S : \A y \in S : x <= y

\* The first index in lo..hi at which the quoted key stands, in any case
FirstKey(t, key, lo, hi) == MinIndex({x \in lo..hi : LowerAtom(t[x].a) = key})

\* The regular expression
\*   \{[^{}]*"thought"[^{}]*"action"[^{}]*"action_input"[^{}]*\}
\* with re.IGNORECASE matches t[i..j]: an opening brace, a closing brace, no
\* brace in between and the three quoted keys in this order in between.
KeysInOrder(t, i, j) ==
    LET x == FirstKey(t, "\"thought\"", i + 1, j - 1)
        y == IF x = 0 THEN 0 ELSE FirstKey(t, "\"action\"", x + 1, j - 1)
        z == IF y = 0 THEN 0 ELSE FirstKey(t, "\"action_input\"", y + 1, j - 1)
    IN  z # 0

\* The end of the match that starts at i, 0 if none starts there: the next
\* brace after i has to be the closing one.
MatchEnd(t, i) ==
    LET j == MinIndex({x \in (i + 1)..Len(t) : t[x].a \in Braces})
    IN  IF t[i].a = "{" /\ j # 0 /\ t[j].a = "}" /\ KeysInOrder(t, i, j) THEN j ELSE 0

\* re.search: the leftmost match, <<i, j>>, or <<0, 0>> when there is none
JsonSearch(t) ==
    LET i == MinIndex({x \in 1..Len(t) : MatchEnd(t, x) # 0})
    IN  IF i = 0 THEN <<0, 0>> ELSE <<i, MatchEnd(t, i)>>

KeyAtoms == {"\"thought\"", "\"action\"", "\"action_input\"", "\"THOUGHT\""}

NoData == [k \in KeyAtoms |-> None]

JsonError == [ok |-> FALSE, data |-> NoData]

\* The index of the first quote atom of s, 0 if there is none
FirstQuote(s) ==
    MinIndex({i \in 1..Len(s) : s[i].a = "\""})

\* A JSON string's content, decoded: the escape \n becomes a newline.
JsonUnescape(v) ==
    [i \in 1..Len(v) |-> IF v[i].a = "\\n" THEN [a |-> "\n", n |-> v[i].n] ELSE v[i]]

\* json.loads on the members of an object (the atoms between its braces):
\* key : "string" pairs separated by commas, whitespace allowed between the
\* tokens; a repeated key keeps its last value; a raw newline inside a
\* string, a missing colon, quote or comma, or any other atom is a
\* JSONDecodeError.
RECURSIVE JsonMembers(_, _)
JsonMembers(s, acc) ==
    LET s1 == LStrip(s)
        s2 == LStrip(Tail(s1))
        s3 == LStrip(Tail(s2))
        body == Tail(s3)
        q == FirstQuote(body)
        val == SubSeq(body, 1, q - 1)
        rest == LStrip(SubSeq(body, q + 1, Len(body)))
        acc2 == [acc EXCEPT ![Head(s1).a] = Some(JsonUnescape(val))]
    IN  IF s1 = <<>> \/ Head(s1).a \notin KeyAtoms THEN JsonError
        ELSE IF s2 = <<>> \/ Head(s2).a # ":" THEN JsonError
        ELSE IF s3 = <<>> \/ Head(s3).a # "\"" THEN JsonError
        ELSE IF q = 0 THEN JsonError
        ELSE IF \E i \in 1..Len(val) : val[i].a = "\n" THEN JsonError
        ELSE IF rest = <<>> THEN [ok |-> TRUE, data |-> acc2]
        ELSE IF Head(rest).a = "," THEN JsonMembers(Tail(rest), acc2)
        ELSE JsonError

\* json.loads(match.group(0))
JsonLoads(obj) == JsonMembers(SubSeq(obj, 2, Len(obj) - 1), NoData)

\* str(data.get(key, "")).strip()
DataGet(data, key) == IF data[key].isNone THEN <<>> ELSE Strip(data[key].s)

FinalAnswerAliases == {"final answer", "finalanswer", "finish"}

\* A lookup that hands back the action as the response spelled it
ToolMappingGetAsIs(registry, action) ==
    IF Len(action) = 1 /\ action[1].n = 1 THEN action[1].a ELSE "Final Answer"

\* tool_mapping.get(action.lower(), "Final Answer"): the registry's names by
\* their lower-case form, then the aliases of the sentinel.
ToolMappingGet(registry, action) ==
    LET l == Lower(action)
        key == l[1].a
    IN  IF Len(l) # 1 \/ l[1].n # 1 THEN "Final Answer"
        ELSE IF key \in FinalAnswerAliases THEN "Final Answer"
        ELSE IF \E name \in registry : LowerAtom(name) = key
             THEN CHOOSE name \in registry : LowerAtom(name) = key
        ELSE "Final Answer"

parse_llm_response(registry, response) ==
    LET r == CleanResponse(response)
        m == JsonSearch(r)
        parsed == JsonLoads(SubSeq(r, m[1], m[2]))
    IN  IF m = <<0, 0>>
        THEN [action |-> "Final Answer", action_input |-> r,
              thought |-> T("No structured response")]
        ELSE IF ~parsed.ok
        THEN [action |-> "Final Answer", action_input |-> r,
              thought |-> T("JSON parsing failed")]
        ELSE [action |-> ToolMappingGet(registry, DataGet(parsed.data, "\"action\"")),
              action_input |-> DataGet(parsed.data, "\"action_input\""),
              thought |-> DataGet(parsed.data, "\"thought\"")]

(***************************************************************************)
(* The responses llm.generate returns in the model                         *)
(***************************************************************************)
Q == Ch("\"")

\* {"thought": "t", "action": "<action>", "action_input": "<input>"}
JsonObject(action, input) ==
    <<Ch("{"), Ch("\"thought\""), Ch(":"), Ch(" "), Q, Ch("t"), Q, Ch(","), Ch(" "),
      Ch("\"action\""), Ch(":"), Ch(" "), Q>> \o action \o
    <<Q, Ch(","), Ch(" "), Ch("\"action_input\""), Ch(":"), Ch(" "), Q>> \o input \o
    <<Q, Ch("}")>>

\* The same object with the action key first
JsonObjectActionFirst(action, input) ==
    <<Ch("{"), Ch("\"action\""), Ch(":"), Q>> \o action \o
    <<Q, Ch(","), Ch("\"thought\""), Ch(":"), Q, Ch("t"), Q, Ch(","),
      Ch("\"action_input\""), Ch(":"), Q>> \o input \o <<Q, Ch("}")>>

\* ```json ... ```
Fenced(t) == T("<fence>json") \o T("\n") \o t \o T("\n") \o T("<fence>")

Url1 == T("https://a.example/page")

Url2 == T("https://b.example/")

\* The action_input values of the Final Answer objects
FinalAnswerInputs == {T("42"), <<Ch(" "), Ch("42"), Ch(" ")>>, <<>>}

\* JSON objects, keys in the prompt's order, whose action is Final Answer
FinalAnswerResponses == {JsonObject(T("Final Answer"), a) : a \in FinalAnswerInputs}

\* JSON objects whose action is an alias of Final Answer, is not the name of
\* a tool, or whose keys are in another order
OtherAnswerResponses ==
    { JsonObject(T("Finish"), T("42")),
      JsonObject(T("calculator"), T("42")),
      JsonObjectActionFirst(T("Final Answer"), T("42")) }

\* JSON objects that name a tool, bare, fenced or after some prose
ToolResponses ==
    { JsonObject(T("scraper"), Url1),
      T(" ") \o Fenced(JsonObject(T("Scraper"), Url2)),
      JsonObject(T("fetcher"), Url1),
      T("Sure:") \o T(" ")
          \o JsonObject(T("PARSER"), T("emails") \o T("\\n") \o T("a@b.example")) }

\* Responses without a JSON object of the three keys: plain text, with
\* whitespace around it, fenced, whitespace only; and an object of the
\* three keys that is not JSON.
UnstructuredResponses ==
    { T("hello"),
      <<Ch(" "), Ch("hello"), Ch("\n")>>,
      Fenced(T("hello")),
      T(" "),
      <<Ch("{"), Ch("\"thought\""), Ch("\"action\""), Ch("\"action_input\""), Ch("}")>> }

Responses ==
    FinalAnswerResponses \cup OtherAnswerResponses \cup ToolResponses
        \cup UnstructuredResponses

\* The registry main.bootstrap builds: FetcherTool, ScraperTool, ParserTool
tool_registry == {"fetcher", "scraper", "parser"}

\* self._parse_llm_response(llm_response) of the agent.  The parse of each
\* response of the model is computed once and looked up afterwards.
ParseTable == [r \in Responses |-> parse_llm_response(tool_registry, r)]

Parsed(response) ==
    IF response \in DOMAIN ParseTable THEN ParseTable[response]
    ELSE parse_llm_response(tool_registry, response)

(***************************************************************************)
(* Substring tests                                                         *)
(***************************************************************************)
\* The pairs <<atom, piece>> where the piece occurs inside a longer atom.
AtomSubstrings ==
    { <<"resumen", "resume">>,
      <<"summarize", "summar">>,
      <<"www.youtube.com", "youtube.com">>,
      <<"<html>", "<html">>,
      <<" Failed to fetch URL after ", "Failed to">>,
      <<"Timeout 30000ms exceeded", "Timeout">> }

AtomHas(a, piece) == a = piece \/ <<a, piece>> \in AtomSubstrings

\* piece in t
Contains(t, piece) == \E i \in 1..Len(t) : AtomHas(t[i].a, piece)

(***************************************************************************)
(* AgentState                                                              *)
(***************************************************************************)
\* AgentState(messages=..., scratchpad=...) with the defaults of the model
AgentState(messages, scratchpad) ==
    [messages |-> messages, scratchpad |-> scratchpad, step_count |-> 0,
     final_answer |-> None, error |-> None]

\* A terminal test that overlooks the error field
TerminalByAnswerOnly(state) == Truthy(state.final_answer)

\* `state.final_answer or state.error`, the test step and run make
Terminal(state) == Truthy(state.final_answer) \/ Truthy(state.error)

(***************************************************************************)
(* ExecutionMetrics                                                        *)
(***************************************************************************)
\* The tools that fetch a URL, without the fetcher
URLToolsScraperOnly == {"scraper"}

\* The tools after which step ends the run, and whose input is hashed
URLTools == {"scraper", "fetcher"}

\* ExecutionMetrics()
NewMetrics == [action_history |-> <<>>, url_attempts |-> {}, failure_count |-> 0]

\* str(hash(s)) if s else "": equal strings have equal hashes, and the
\* strings of the model have pairwise different ones.
hash_input(s) == IF s = <<>> THEN <<>> ELSE T("hash of ") \o s

\* A failure counted without recording the action
record_action_unrecorded(m, action, action_input, failed) ==
    [m EXCEPT !.failure_count = IF failed THEN @ + 1 ELSE @]

\* An action recorded without counting its failure
record_action_uncounted(m, action, action_input, failed) ==
    [m EXCEPT !.action_history =
                  Append(@, [action |-> action,
                             input_hash |-> IF action \in URLTools
                                            THEN hash_input(action_input) ELSE <<>>])]

record_action(m, action, action_input, failed) ==
    LET input_hash == IF action \in URLTools THEN hash_input(action_input) ELSE <<>>
    IN  [action_history |->
             Append(m.action_history, [action |-> action, input_hash |-> input_hash]),
         url_attempts |->
             IF action \in URLTools /\ action_input # <<>>
             THEN m.url_attempts \cup {Lower(Strip(action_input))}
             ELSE m.url_attempts,
         failure_count |->
             IF failed THEN m.failure_count + 1 ELSE m.failure_count]

is_stuck(m) ==
    LET h == m.action_history
    IN  IF Len(h) < 2 THEN FALSE ELSE h[Len(h)] = h[Len(h) - 1]

FailureLimit == 2

should_give_up(m) == m.failure_count >= FailureLimit

(***************************************************************************)
(* ReActAgent                                                              *)
(***************************************************************************)
ErrorMarkers ==
    {"Error:", "HTTP Error", "Failed to", "Unable to", "Connection refused",
     "Timeout", "Not Found", "Forbidden"}

is_error_result(result) == \E marker \in ErrorMarkers : Contains(result, marker)

\* A terminal state whose transcript is the error line alone
create_terminal_state_rewritten(state, error_msg, user_msg) ==
    [state EXCEPT !.scratchpad = T("\n\n<x> **ERROR:** ") \o error_msg,
                  !.error = Some(error_msg),
                  !.final_answer = Some(user_msg),
                  !.step_count = @ + 1]

\* A terminal state built without counting the step
create_terminal_state_uncounted(state, error_msg, user_msg) ==
    [state EXCEPT !.scratchpad = @ \o T("\n\n<x> **ERROR:** ") \o error_msg,
                  !.error = Some(error_msg),
                  !.final_answer = Some(user_msg)]

\* A terminal state built without the message for the user
create_terminal_state_unanswered(state, error_msg, user_msg) ==
    [state EXCEPT !.scratchpad = @ \o T("\n\n<x> **ERROR:** ") \o error_msg,
                  !.error = Some(error_msg),
                  !.step_count = @ + 1]

create_terminal_state(state, error_msg, user_msg) ==
    [state EXCEPT !.scratchpad = @ \o T("\n\n<x> **ERROR:** ") \o error_msg,
                  !.error = Some(error_msg),
                  !.final_answer = Some(user_msg),
                  !.step_count = @ + 1]

LLMUnavailableUserMsg ==
    T("<red> The AI service is temporarily unavailable. Please try again in a moment.")

StuckUserMsg ==
    T("<warn> I'm having difficulty accessing this content. The website may be blocking automated access or requires special authentication.")

GiveUpUserMsg ==
    T("<x> Multiple attempts failed. This website may be inaccessible or requires manual intervention.")

SummaryKeywords ==
    {"resume", "resumen", "resumir", "summarize", "summary", "short", "brief",
     "corto", "breve", "tldr"}

MinWords == 10

ExcerptShort == 100

ExcerptLong == 1000

ResultCap == 10000

\* state.messages[0].get("content", "") if state.messages else ""
UserRequest(state) ==
    IF state.messages = <<>> THEN <<>> ELSE state.messages[1].content

wants_summary(state) ==
    \E kw \in SummaryKeywords : Contains(Lower(UserRequest(state)), kw)

\* An outcome of an awaited call: ok with the text returned, or an exception
\* whose str() is the text.
Returns(t) == [ok |-> TRUE, text |-> t]

Raises(t) == [ok |-> FALSE, text |-> t]

NoCall == [ok |-> TRUE, text |-> T("<not called>")]

\* An evaluation that hands every result back to the loop
evaluate_and_continue(state, scratchpad, result, url, summ) ==
    [state |-> [state EXCEPT !.scratchpad = scratchpad, !.step_count = @ + 1],
     llm_calls |-> 0]

\* An evaluation that reports an error text of the tool in the error field
evaluate_and_fail(state, scratchpad, result, url, summ) ==
    [state |-> IF is_error_result(result)
               THEN [state EXCEPT !.scratchpad = scratchpad,
                                  !.error = Some(result),
                                  !.final_answer = Some(result),
                                  !.step_count = @ + 1]
               ELSE [state EXCEPT !.scratchpad = scratchpad,
                                  !.final_answer = Some(Strip(result)),
                                  !.step_count = @ + 1],
     llm_calls |-> 0]

\* An evaluation that never asks for a summary
evaluate_without_summary(state, scratchpad, result, url, summ) ==
    [state |-> [state EXCEPT !.scratchpad = scratchpad,
                             !.final_answer = Some(Strip(result)),
                             !.step_count = @ + 1],
     llm_calls |-> 0]

\* An evaluation that ends a failed summarization like a failed planning call
evaluate_and_report_unavailable(state, scratchpad, result, url, summ) ==
    IF ~is_error_result(result) /\ WordCount(Strip(result)) >= MinWords
                                /\ wants_summary(state)
    THEN [state |-> IF summ.ok
                    THEN [state EXCEPT !.scratchpad = scratchpad,
                                       !.final_answer =
                                           Some(T("<memo> **Summary:**\n\n")
                                                    \o Strip(summ.text)),
                                       !.step_count = @ + 1]
                    ELSE [state EXCEPT !.scratchpad = scratchpad,
                                       !.error = Some(T("LLM service unavailable: ")
                                                          \o summ.text),
                                       !.final_answer = Some(LLMUnavailableUserMsg),
                                       !.step_count = @ + 1],
          llm_calls |-> 1]
    ELSE [state |-> [state EXCEPT !.scratchpad = scratchpad,
                                  !.final_answer = Some(Strip(result)),
                                  !.step_count = @ + 1],
          llm_calls |-> 0]

\* ReActAgent._evaluate_and_terminate; summ is the outcome of the
\* summarization call to llm.generate, made only on the wants_summary path.
\* Yields the new state and the number of LLM calls made.
evaluate_and_terminate(state, scratchpad, result, url, summ) ==
    LET clean_result == Strip(result)
        word_count == WordCount(clean_result)
        done(answer, n) ==
            [state |-> [state EXCEPT !.scratchpad = scratchpad,
                                     !.final_answer = Some(answer),
                                     !.step_count = @ + 1],
             llm_calls |-> n]
    IN  IF is_error_result(result)
        THEN done(T("<x> Failed to access content:\n\n") \o result, 0)
        ELSE IF word_count < MinWords
        THEN done(T("<x> **Unable to extract meaningful content from ") \o url
                  \o T("**\n\nRetrieved only: \"") \o Take(clean_result, ExcerptShort)
                  \o T("...\"\n\n**Possible reasons:** JavaScript, authentication, bot detection"),
                  0)
        ELSE IF wants_summary(state)
        THEN IF summ.ok
             THEN done(T("<memo> **Summary:**\n\n") \o Strip(summ.text), 1)
             ELSE done(T("<warn> Could not generate summary due to: ") \o summ.text
                       \o T("\n\n**Here's the extracted content:**\n\n")
                       \o Take(clean_result, ExcerptLong) \o T("..."), 1)
        ELSE done(T("<ok> **Successfully scraped content:**\n\n") \o clean_result, 0)

\* The block step appends to the transcript after parsing
StepBlock(state, p) ==
    T("\n\n=====\nSTEP ") \o T(Str(state.step_count + 1)) \o T("\n=====\n<thought> Thought: ")
    \o p.thought \o T("\n<target> Action: ") \o T(p.action) \o T("\n<memo> Input: ")
    \o p.action_input

NoParse == [action |-> "<none>", action_input |-> <<>>, thought |-> <<>>]

\* What one call of step did: the state returned, the metrics afterwards, the
\* number of llm.generate calls, whether tool.execute was called, and the
\* parse of the response (NoParse if there was none).
StepResult(state, m, n, executed, p) ==
    [state |-> state, metrics |-> m, llm_calls |-> n, executed |-> executed,
     parsed |-> p]

\* A cut that leaves no marker
truncate_result_unmarked(raw) == Take(raw, ResultCap)

\* result[:10000] + "\n\n... (remaining content truncated)" for a result of
\* more than 10000 characters
truncate_result(raw) ==
    IF TextLen(raw) > ResultCap
    THEN Take(raw, ResultCap) \o T("\n\n... (remaining content truncated)")
    ELSE raw

\* The return of step after _evaluate_and_terminate yielded e
step_evaluated(m2, p, e) == StepResult(e.state, m2, 1 + e.llm_calls, TRUE, p)

\* step once the tool has answered and the action is recorded in m2:
\* final_scratchpad carries the observation; the URL tools end the run and
\* any other tool hands back a non-terminal state.
step_observe(state, m2, p, final_scratchpad, result, summ) ==
    IF p.action \in URLTools
    THEN step_evaluated(m2, p,
             evaluate_and_terminate(state, final_scratchpad, result,
                                    p.action_input, summ))
    ELSE StepResult([state EXCEPT !.scratchpad = final_scratchpad,
                                  !.step_count = @ + 1], m2, 1, TRUE, p)

\* step from tool.execute on: raw is the tool's result or the text made of
\* its exception, action_failed whether the action counts as a failure.
step_execute(state, m, p, scratchpad, raw, action_failed, summ) ==
    step_observe(state, record_action(m, p.action, p.action_input, action_failed), p,
                 scratchpad \o T("\n<chart> Result: ") \o truncate_result(raw),
                 truncate_result(raw), summ)

\* step from the return of tool.execute on: the try / except around it and
\* what follows; m is the agent's metrics at that moment
step_tool(state, m, p, scratchpad, tool, summ) ==
    IF tool.ok
    THEN step_execute(state, m, p, scratchpad, tool.text,
                      is_error_result(tool.text), summ)
    ELSE step_execute(state, m, p, scratchpad,
                      T("Tool execution error: ") \o tool.text, TRUE, summ)

\* step from the parse p of the response on; scratchpad is the transcript
\* with the block of this step, tool the outcome of tool.execute.
step_act(state, m, p, scratchpad, tool, summ) ==
    IF p.action = "Final Answer"
    THEN StepResult([state EXCEPT !.scratchpad = scratchpad,
                                  !.final_answer = Some(p.action_input),
                                  !.step_count = @ + 1], m, 1, FALSE, p)
    ELSE IF is_stuck(m)
    THEN StepResult(create_terminal_state(state,
                        T("Stuck: repeated '") \o T(p.action) \o T("' with same input"),
                        StuckUserMsg), m, 1, FALSE, p)
    ELSE IF should_give_up(m)
    THEN StepResult(create_terminal_state(state, T("Too many failures"),
                        GiveUpUserMsg), m, 1, FALSE, p)
    ELSE IF p.action \notin tool_registry
    THEN StepResult(create_terminal_state(state,
                        T("Unknown tool requested: ") \o T(p.action),
                        T("<gear> Internal error: Invalid tool '") \o T(p.action) \o T("'")),
                    m, 1, FALSE, p)
    ELSE step_tool(state, m, p, scratchpad, tool, summ)

\* step from the response of the planning call on
step_parsed(state, m, p, tool, summ) ==
    step_act(state, m, p, state.scratchpad \o StepBlock(state, p), tool, summ)

\* ReActAgent._build_optimized_prompt, the parts that depend on the state:
\* the request, the context note and, for a transcript that is not blank,
\* the work log
build_optimized_prompt(state) ==
    T("<clipboard> **USER REQUEST:**\n") \o UserRequest(state)
    \o T("\n<memo> **CONTEXT:** ")
    \o (IF Strip(state.scratchpad) # <<>>
        THEN T("**Previous attempts recorded below.**")
        ELSE T("**First attempt.**"))
    \o (IF Strip(state.scratchpad) # <<>>
        THEN T("**WORK LOG:**") \o state.scratchpad
        ELSE <<>>)

\* No prompt was built
NoPrompt == <<>>

\* ReActAgent.step(state) with the agent's metrics m.  llm is the outcome of
\* the planning call to llm.generate, tool the outcome of tool.execute and
\* summ the outcome of the summarization call, each used only if the call
\* is made.
step(state, m, llm, tool, summ) ==
    IF Terminal(state) THEN StepResult(state, m, 0, FALSE, NoParse)
    ELSE IF ~llm.ok
    THEN StepResult(create_terminal_state(state,
                        T("LLM service unavailable: ") \o llm.text,
                        LLMUnavailableUserMsg), m, 1, FALSE, NoParse)
    ELSE step_parsed(state, m, Parsed(llm.text), tool, summ)

(***************************************************************************)
(* Inputs: tool and summarization outcomes, initial states                 *)
(***************************************************************************)
LLMOutcomes == {Returns(r) : r \in Responses} \cup {Raises(T("API timeout"))}

\* The outcomes of the planning call in the direct calls of step: the
\* responses of the unit tests, one of each kind
DirectLLMOutcomes ==
    { Returns(JsonObject(T("Final Answer"), T("42"))),
      Returns(JsonObject(T("scraper"), Url1)),
      Returns(T("Sure:") \o T(" ")
                  \o JsonObject(T("PARSER"), T("emails") \o T("\\n") \o T("a@b.example"))),
      Returns(T("hello")),
      Raises(T("API timeout")) }

\* More characters than step keeps of a result
LongResult == ResultCap + 1

\* tool.execute returns a few words, at least MinWords words, one word of
\* more than ResultCap characters, a text with an error marker, or raises.
ToolOutcomes ==
    { Returns(T("Hi")),
      Returns(<<Ch(" "), [a |-> "word", n |-> 12], Ch("\n")>>),
      Returns(<<[a |-> "x", n |-> LongResult]>>),
      Returns(T("HTTP Error") \o T(" 404: ") \o Url1),
      Raises(T("Network error")) }

SummaryOutcomes == {Returns(<<Ch(" "), Ch("the gist")>>), Raises(T("rate limited"))}

UserRequests ==
    { T("Scrape") \o T(" ") \o Url1,
      T("Summarize") \o T(" ") \o Url1 }

\* The initial state the HTTP boundary builds (web.run_agent)
HttpInitialState(user_input) ==
    AgentState(<<[role |-> "user", content |-> user_input]>>, T("User: ") \o user_input)

\* States that are terminal when step or run receives them
TerminalStates ==
    { [AgentState(<<>>, <<>>) EXCEPT !.step_count = 1, !.final_answer = Some(T("done"))],
      [AgentState(<<>>, <<>>) EXCEPT !.step_count = 1, !.error = Some(T("failed"))] }

\* The states run is started on: those of the HTTP boundary, the fresh
\* AgentState() of the tests, a state that is already some steps in, and
\* terminal states.
InitialStates ==
    {HttpInitialState(u) : u \in UserRequests}
    \cup { AgentState(<<>>, <<>>),
           [AgentState(<<>>, T("earlier work")) EXCEPT !.step_count = 2] }
    \cup TerminalStates

\* The states a caller hands to step directly, as the unit tests do
DirectStates ==
    { AgentState(<<>>, <<>>),
      [AgentState(<<>>, <<>>) EXCEPT !.error = Some(<<>>)],
      [AgentState(<<>>, <<>>) EXCEPT !.step_count = 1,
                                     !.final_answer = Some(T("done")),
                                     !.error = Some(T("failed"))] }
    \cup TerminalStates

(***************************************************************************)
(* The program: one ReActAgent, its AgentRunner, and their callers         *)
(***************************************************************************)
MaxIterations == 3

MaxHistory == 2

VARIABLES
    max_iterations,  \* AgentRunner._max_iterations
    metrics,         \* ReActAgent._metrics
    pc,              \* "idle": no run yet; "running": inside run; "returned";
                     \* "raised": run ended with an exception
    initial,         \* run's argument initial_state
    state,           \* run's local variable state; the value run returned
    calls,           \* the number of step calls the current run has made
    llm_calls,       \* the number of llm.generate calls of the current run
    last,            \* the most recent call of step: its argument, outcome, effects
    stale,           \* the current run has made one step at most, and the
                     \* metrics the agent held when the run was called would
                     \* have stopped a tool step
    crash,           \* the exception step raised in the current run, and
                     \* the one run raised to its caller
    req,             \* the concurrent requests: for each, where its run is
    scr,             \* a ScraperTool, the call of execute under way and the clock
    bm,              \* the BrowserManager and the callers of get_browser
    fet              \* a FetcherTool and the call of execute under way

\* The variables of a run of the runner.  Until the first step has returned,
\* state and initial are the same instance.
runVars == <<pc, initial, state, calls, llm_calls, last, stale, crash>>

\* The variables of the other specifications of this module
others == <<req, scr, bm, fet>>

\* The variables that the concurrent requests leave alone
concOthers == <<runVars, scr, bm, fet>>

\* The variables that the scraper leaves alone
scraperOthers == <<max_iterations, metrics, runVars, req, bm, fet>>

\* The variables that the browser manager leaves alone
browserOthers == <<max_iterations, metrics, runVars, req, scr, fet>>

\* The variables that the fetcher leaves alone
fetcherOthers == <<max_iterations, metrics, runVars, req, scr, bm>>

vars == <<max_iterations, metrics, pc, initial, state, calls, llm_calls, last, stale,
          crash, others>>

NoCrash == [step |-> None, run |-> None]

(***************************************************************************)
(* ScraperTool (tools/implementations/scraper.py).  Time is counted in     *)
(* ticks of half a second.                                                 *)
(***************************************************************************)
\* The last tick of the clock
MaxTime == 7

\* settings.scraper_polite_delay, 1.0 second
PoliteDelay == 2

\* random.uniform(0, 0.5), at most half a second
MaxJitter == 1

\* settings.scraper_retry_attempts
RetryAttempts == 3

\* settings.scraper_min_words_poor
MinWordsPoor == 10

Schemes == {"http://", "https://"}

\* The hosts of the URLs scraped
Domains == {"a.example", "www.youtube.com"}

\* The values of input_data: a URL, the same without its scheme and with
\* blanks around it, the URL of a site rendered in the browser, the empty
\* string, and a URL whose host opens a bracket it does not close
ScrapeInputs ==
    { <<Ch("https://"), Ch("a.example"), Ch("/page")>>,
      <<Ch(" "), Ch("a.example"), Ch("/page"), Ch("\n")>>,
      <<Ch("https://"), Ch("www.youtube.com"), Ch("/watch")>>,
      <<>>,
      <<Ch("http://"), Ch("[::1")>> }

\* ScraperTool._normalize_url
normalize_url(url) ==
    IF url # <<>> /\ Head(url).a \in Schemes THEN url ELSE T("https://") \o url

\* urlparse(url).netloc for a URL that starts with its scheme
netloc(url) == IF Len(url) >= 2 THEN url[2].a ELSE ""

\* urlparse raises ValueError("Invalid IPv6 URL") for a host with one bracket
urlparse_raises(url) == netloc(url) = "[::1"

\* ScraperTool._is_valid_url: a scheme and a host
is_valid_url(url) == url # <<>> /\ Head(url).a \in Schemes /\ netloc(url) # ""

JsHeavySites == {"youtube.com", "x.com", "reddit.com", "medium.com"}

\* ScraperTool._is_js_heavy_domain
is_js_heavy_domain(url) == \E site \in JsHeavySites : AtomHas(netloc(url), site)

FailureMarkers == {"<x>", "<warn>"}

\* result.startswith(marker) for one of the two markers
StartsWithMarker(result) == result # <<>> /\ Head(result).a \in FailureMarkers

\* An upgrade test that counts the words of any result
result_needs_js_by_words(result) == WordCount(Strip(result)) < MinWordsPoor

\* ScraperTool._result_needs_js
result_needs_js(result) ==
    IF StartsWithMarker(result) THEN FALSE
    ELSE \/ WordCount(Strip(result)) < MinWordsPoor
         \/ \E phrase \in {"loading", "please enable javascript", "javascript required"} :
                Contains(Lower(Strip(result)), phrase)

\* settings.scraper_max_length
MaxLength == 15000

\* The tags of the pages of the model
TagAtoms == {"<html>", "</html>", "<p>", "</p>"}

HtmlIndicators == {"<!doctype", "<html", "<head", "<body", "<div", "<p>"}

\* StaticScraper._looks_like_html
looks_like_html(content) ==
    \E ind \in HtmlIndicators : Contains(Lower(Take(Strip(content), 200)), ind)

\* StaticScraper._clean_whitespace: runs of blanks shrink to one blank, runs
\* of three and more newlines to two, and the ends are stripped
clean_whitespace(text) ==
    Strip([i \in 1..Len(text) |->
              IF text[i].a = " " THEN [a |-> " ", n |-> 1]
              ELSE IF text[i].a = "\n" /\ text[i].n >= 3 THEN [a |-> "\n", n |-> 2]
              ELSE text[i]])

\* "\n\n... (content truncated)"
TruncationMarker == T("\n\n... (content truncated)")

\* StaticScraper._truncate
truncate(text) ==
    IF TextLen(text) > MaxLength THEN Take(text, MaxLength) \o TruncationMarker ELSE text

IsVisible(c) == c.a \notin TagAtoms

\* StaticScraper._extract_semantic_text: the text between the tags, cleaned
\* and truncated
extract_semantic_text(html) == truncate(clean_whitespace(SelectSeq(html, IsVisible)))

\* A page of k words in a paragraph
Page(k) == <<Ch("<html>"), Ch("<p>"), [a |-> "word", n |-> k], Ch("</p>"), Ch("</html>")>>

\* What one attempt of StaticScraper.scrape meets.  A response has a status,
\* a content type and a body: a page of a dozen words, a body of one word, a
\* body that asks for JavaScript, a PDF, a page longer than MAX_LENGTH, a
\* plain body longer than MAX_LENGTH served as text/html, the page of a 404.
\* An attempt without response ends in a timeout or network error, or in
\* any other exception.
HttpOutcomes ==
    { [kind |-> "response", status |-> 200, ctype |-> "text/html", text |-> Page(12)],
      [kind |-> "response", status |-> 200, ctype |-> "text/html", text |-> T("Hi")],
      [kind |-> "response", status |-> 200, ctype |-> "text/html",
       text |-> <<[a |-> "word", n |-> 12], Ch(" "), Ch("please enable javascript")>>],
      [kind |-> "response", status |-> 200, ctype |-> "application/pdf",
       text |-> T("Binary data")],
      [kind |-> "response", status |-> 200, ctype |-> "text/html",
       text |-> Page(MaxLength + 5)],
      [kind |-> "response", status |-> 200, ctype |-> "text/html",
       text |-> <<[a |-> "word", n |-> MaxLength + 5]>>],
      [kind |-> "response", status |-> 404, ctype |-> "text/html",
       text |-> <<Ch("<html>"), Ch("<p>"), Ch("404 Page"), Ch(" "),
                  [a |-> "word", n |-> 12], Ch("</p>"), Ch("</html>")>>],
      [kind |-> "timeout", status |-> 0, ctype |-> "", text |-> T("timed out")],
      [kind |-> "error", status |-> 0, ctype |-> "", text |-> T("decoding failed")] }

\* No attempt made so far
NoHttp == [kind |-> "none", status |-> 0, ctype |-> "", text |-> <<>>]

IsHtmlType(ctype) == AtomHas(ctype, "text/html") \/ AtomHas(ctype, "application/xhtml")

\* A static attempt that takes every exception for a transient failure
static_attempt_retrying_errors(attempt, http) ==
    CASE http.kind = "response" ->
            IF ~IsHtmlType(http.ctype)
            THEN Returns(T("<warn>") \o T(" The URL returned ") \o T(http.ctype)
                             \o T(" content. Only HTML pages can be scraped."))
            ELSE IF looks_like_html(http.text)
            THEN Returns(extract_semantic_text(http.text))
            ELSE Returns(http.text)
      [] OTHER ->
            IF attempt = RetryAttempts
            THEN Returns(T("<x>") \o T(" Failed to fetch URL after ")
                             \o T(Str(RetryAttempts)) \o T(" attempts: ") \o http.text)
            ELSE NoCall

\* A static attempt that overlooks the content type
static_attempt_any_type(attempt, http) ==
    CASE http.kind = "response" ->
            IF looks_like_html(http.text)
            THEN Returns(extract_semantic_text(http.text))
            ELSE Returns(http.text)
      [] http.kind = "timeout" ->
            IF attempt = RetryAttempts
            THEN Returns(T("<x>") \o T(" Failed to fetch URL after ")
                             \o T(Str(RetryAttempts)) \o T(" attempts: ") \o http.text)
            ELSE NoCall
      [] OTHER -> Returns(T("<x>") \o T(" Unexpected error: ") \o http.text)

\* What one attempt of StaticScraper.scrape returns; NoCall when the attempt
\* is followed by another one.  The status of a response is not looked at.
static_attempt(attempt, http) ==
    CASE http.kind = "response" ->
            IF ~IsHtmlType(http.ctype)
            THEN Returns(T("<warn>") \o T(" The URL returned ") \o T(http.ctype)
                             \o T(" content. Only HTML pages can be scraped."))
            ELSE IF looks_like_html(http.text)
            THEN Returns(extract_semantic_text(http.text))
            ELSE Returns(http.text)
      [] http.kind = "timeout" ->
            IF attempt = RetryAttempts
            THEN Returns(T("<x>") \o T(" Failed to fetch URL after ")
                             \o T(Str(RetryAttempts)) \o T(" attempts: ") \o http.text)
            ELSE NoCall
      [] OTHER -> Returns(T("<x>") \o T(" Unexpected error: ") \o http.text)

\* _extract_semantic_text is reached by this attempt
static_extracts(http) ==
    http.kind = "response" /\ IsHtmlType(http.ctype) /\ looks_like_html(http.text)

\* What the browser does in one stage of JSScraper.scrape
StageOutcomes == {Returns(<<[a |-> "word", n |-> 12]>>), Raises(T("Target closed"))}

\* What navigation and rendering end in: the HTML of the page (a short and
\* a long one), a PlaywrightTimeout, any other exception
RenderOutcomes ==
    { [kind |-> "html", text |-> Page(12)],
      [kind |-> "html", text |-> Page(MaxLength + 5)],
      [kind |-> "timeout", text |-> T("Timeout 30000ms exceeded")],
      [kind |-> "error", text |-> T("net::ERR_NAME_NOT_RESOLVED")] }

\* What the try block of JSScraper.scrape returns for url
js_render(url, render) ==
    CASE render.kind = "html" -> Returns(extract_semantic_text(render.text))
      [] render.kind = "timeout" -> Returns(T("<x>") \o T(" Page load timeout: ") \o url)
      [] OTHER -> Returns(T("<x>") \o T(" Error rendering page: ") \o render.text)

\* A ScraperTool on which execute has not been called.  times is
\* _domain_request_times with 0 for a host without entry; passed and
\* previous are the moments at which the latest call for the host and the
\* one before it left _respect_politeness; context is the browsing context
\* of the current call: "none", "open" or "closed"; http is what the latest
\* GET of the call met, static what StaticScraper.scrape returned to execute,
\* rendered whether the call entered JSScraper.scrape, extracted whether it
\* reached _extract_semantic_text; tries is the kind of outcome of each GET
\* of the call, slept the seconds of each asyncio.sleep of
\* StaticScraper.scrape in the call.
NewScraper ==
    [pc |-> "idle", now |-> 1, input |-> <<>>, url |-> <<>>, attempt |-> 0,
     read |-> 0, wake |-> 0, pending |-> NoCall, result |-> NoCall, failed |-> FALSE,
     context |-> "none", http |-> NoHttp, static |-> NoCall, rendered |-> FALSE,
     extracted |-> FALSE, tries |-> <<>>, slept |-> <<>>,
     times |-> [d \in Domains |-> 0],
     passed |-> [d \in Domains |-> 0],
     previous |-> [d \in Domains |-> 0]]

(***************************************************************************)
(* FetcherTool (tools/implementations/fetcher.py)                          *)
(***************************************************************************)
\* The calls of execute made on one tool
MaxFetches == 2

\* The length to which execute cuts the text of a response
FetchCap == 10000

\* The values of input_data: two URLs, the first without its scheme and
\* with blanks around it, the empty string
FetchInputs ==
    { <<Ch("https://"), Ch("a.example"), Ch("/page")>>,
      <<Ch("http://"), Ch("a.example"), Ch("/page")>>,
      <<Ch(" "), Ch("a.example"), Ch("/page"), Ch("\n")>>,
      <<>> }

\* url = input_data.strip(), with "https://" in front of it unless it starts
\* with a scheme
fetch_url(input_data) ==
    IF Strip(input_data) # <<>> /\ Head(Strip(input_data)).a \in Schemes
    THEN Strip(input_data)
    ELSE T("https://") \o Strip(input_data)

\* str(response.status_code) for the statuses of the model
StatusText(status) ==
    CASE status = 403 -> "403" [] status = 404 -> "404" [] status = 500 -> "500"
      [] OTHER -> "200"

\* What one GET of the fetcher and the handling of its response meet: a
\* page, a page of more than 10000 characters, a status for which
\* raise_for_status raises HTTPStatusError (403, 404, 500), any other
\* exception (of the GET, or of the decoding of the body)
FetchOutcomes ==
    { [kind |-> "ok", status |-> 200, text |-> Page(12)],
      [kind |-> "ok", status |-> 200, text |-> Page(FetchCap + 5)],
      [kind |-> "status", status |-> 403, text |-> T("Forbidden")],
      [kind |-> "status", status |-> 404, text |-> T("Not Found")],
      [kind |-> "status", status |-> 500, text |-> T("Internal Server Error")],
      [kind |-> "exception", status |-> 0, text |-> T("Connection refused")] }

\* No GET
NoFetch == [kind |-> "none", status |-> 0, text |-> <<>>]

\* text[:10000] + "\n... (truncated)" for a text of more than 10000
fetch_truncate(text) ==
    IF TextLen(text) > FetchCap THEN Take(text, FetchCap) \o T("\n... (truncated)")
    ELSE text

\* "HTTP Error <code>: <url>"
HttpErrorText(status, url) ==
    T("HTTP Error ") \o T(StatusText(status)) \o T(": ") \o url

\* An iteration that tries again after any error status
fetch_attempt_retrying_status(attempt, url, http) ==
    CASE http.kind = "ok" -> Returns(fetch_truncate(http.text))
      [] http.kind = "status" ->
            IF attempt = 0 THEN NoCall ELSE Returns(HttpErrorText(http.status, url))
      [] OTHER ->
            IF attempt = 0 THEN NoCall
            ELSE Returns(T("Error fetching ") \o url \o T(": ") \o http.text)

\* An iteration that tries again after any exception, whatever the attempt
fetch_attempt_retrying_always(attempt, url, http) ==
    CASE http.kind = "ok" -> Returns(fetch_truncate(http.text))
      [] http.kind = "status" ->
            IF http.status = 403 /\ attempt = 0 THEN NoCall
            ELSE Returns(HttpErrorText(http.status, url))
      [] OTHER -> NoCall

\* One iteration of the loop of execute, attempt being 0 or 1: what it
\* returns, NoCall when it ends in `continue`
fetch_attempt(attempt, url, http) ==
    CASE http.kind = "ok" -> Returns(fetch_truncate(http.text))
      [] http.kind = "status" ->
            IF http.status = 403 /\ attempt = 0 THEN NoCall
            ELSE Returns(HttpErrorText(http.status, url))
      [] OTHER ->
            IF attempt = 0 THEN NoCall
            ELSE Returns(T("Error fetching ") \o url \o T(": ") \o http.text)

\* The return after the loop
FetchFallThrough(url) ==
    Returns(T("Error: Failed to fetch ") \o url \o T(" after multiple attempts."))

\* A FetcherTool on which execute has not been called.  gets counts the GETs
\* of the current call, first and second are what they met, calls counts
\* the calls of execute.
NewFetcher ==
    [pc |-> "idle", input |-> <<>>, url |-> <<>>, attempt |-> 0, gets |-> 0,
     first |-> NoFetch, second |-> NoFetch, result |-> NoCall, calls |-> 0]

(***************************************************************************)
(* BrowserManager (tools/implementations/scraper.py)                       *)
(***************************************************************************)
\* The calls of get_browser each task makes
MaxGets == 2

\* The tasks that call get_browser
Callers == {"c1", "c2", "c3"}

\* The calls of close made on the manager
MaxCloses == 1

\* The singleton before any call: no browser (0), no Playwright driver (0),
\* the lock free with no task waiting for it, no browser launched and no
\* driver started so far.  launched_by gives for each browser launched the
\* driver that launched it; closed and stopped are the browsers that
\* close has closed and the drivers it has stopped; closer is the position
\* of the call of close, the object it awaits and the number of calls.
\* For each task: where its call is, the driver its launch goes to, the
\* browser it received, whether that browser was closed or without running
\* driver when it received it, the number of its calls, and whether a call
\* of it had to wait for the lock.
NewBrowserManager ==
    [browser |-> 0, playwright |-> 0, locked |-> FALSE, queue |-> <<>>,
     launches |-> 0, starts |-> 0, launched_by |-> <<>>,
     closed |-> {}, stopped |-> {},
     closer |-> [pc |-> "idle", target |-> 0, calls |-> 0],
     pc |-> [c \in Callers |-> "idle"],
     drv |-> [c \in Callers |-> 0],
     got |-> [c \in Callers |-> 0],
     dead |-> [c \in Callers |-> FALSE],
     gets |-> [c \in Callers |-> 0],
     waited |-> [c \in Callers |-> FALSE]]

\* A lock that lets every task in
acquire_at_once_unlocked(b) == TRUE

\* asyncio.Lock.acquire returns at once: the lock is free and no task waits
acquire_at_once(b) == ~b.locked /\ b.queue = <<>>

\* The call of task c leaves get_browser with browser (0 when it raised):
\* the async with block releases the lock
leave_lock(b, c, end, browser) ==
    [b EXCEPT !.locked = FALSE, !.pc[c] = end, !.got[c] = browser,
              !.drv[c] = 0,
              !.dead[c] = /\ browser # 0
                          /\ \/ browser \in b.closed
                             \/ b.launched_by[browser] \in b.stopped]

\* close takes no lock: it starts whatever get_browser is doing
close_may_start(b) == TRUE

\* close from `if self._playwright:` on: the stop of the driver held is
\* awaited, or close is over
close_driver(b) ==
    IF b.playwright # 0
    THEN [b EXCEPT !.closer.pc = "stopping", !.closer.target = b.playwright]
    ELSE [b EXCEPT !.closer.pc = "done", !.closer.target = 0]

\* The requests that the process serves at the same time
Requests == {"A", "B"}

\* A request before web.run_agent has called runner.run for it.  own is the
\* history and the counter that hold only what the request itself recorded.
IdleRequest ==
    [pc |-> "idle", state |-> AgentState(<<>>, <<>>), llm |-> NoCall,
     own |-> NewMetrics, ran |-> FALSE, own_ran |-> FALSE]

NoStep ==
    [kind |-> "none", in |-> AgentState(<<>>, <<>>), out |-> AgentState(<<>>, <<>>),
     before |-> NewMetrics, after |-> NewMetrics, llm |-> NoCall, tool |-> NoCall,
     summ |-> NoCall, llm_calls |-> 0, executed |-> FALSE, parsed |-> NoParse,
     previous |-> NoParse, input_after |-> AgentState(<<>>, <<>>), fresh |-> FALSE,
     prompt |-> NoPrompt]

\* An update that writes the new fields into the instance it is called on and
\* returns that instance
update_in_place(obj, updated) == [self |-> updated, result |-> updated, fresh |-> FALSE]

\* AgentState.model_copy on the instance obj: the result is a new instance,
\* a deep copy that holds the updated fields; self is obj afterwards.
model_copy(obj, updated) == [self |-> obj, result |-> updated, fresh |-> TRUE]

\* The instances of a call step(s) with result r: the guard for a terminal
\* state returns the argument itself, every other return is a model_copy.
StepObjects(s, r) ==
    IF r.llm_calls = 0 THEN [self |-> s, result |-> s, fresh |-> FALSE]
    ELSE model_copy(s, r.state)

\* The record of a call step(s) with result r that consumed the outcomes
\* llm, tool, summ; previous is the parse of the call before it in the run.
MakeRecord(kind, s, m, llm, tool, summ, previous, r) ==
    [kind |-> kind, in |-> s, out |-> StepObjects(s, r).result,
     input_after |-> StepObjects(s, r).self, fresh |-> StepObjects(s, r).fresh,
     before |-> m, after |-> r.metrics,
     llm |-> IF r.llm_calls >= 1 THEN llm ELSE NoCall,
     tool |-> IF r.executed THEN tool ELSE NoCall,
     summ |-> IF r.llm_calls >= 2 THEN summ ELSE NoCall,
     llm_calls |-> r.llm_calls, executed |-> r.executed, parsed |-> r.parsed,
     previous |-> previous,
     prompt |-> IF r.llm_calls >= 1 THEN build_optimized_prompt(s) ELSE NoPrompt]

StepRecord(kind, s, m, llm, tool, summ, previous) ==
    MakeRecord(kind, s, m, llm, tool, summ, previous, step(s, m, llm, tool, summ))

\* The outcomes the planning call can have in a call of step: none is
\* consumed when step returns a terminal state at once.
LLMOutcomesFor(s, outcomes) == IF Terminal(s) THEN {NoCall} ELSE outcomes

\* The outcomes tool.execute can have in a call of step: none is consumed
\* when the call does not reach tool.execute.
ToolOutcomesFor(s, m, llm) ==
    IF step(s, m, llm, NoCall, NoCall).executed THEN ToolOutcomes ELSE {NoCall}

\* The outcomes of the summarization call, when step makes it
SummaryOutcomesFor(s, m, llm, tool) ==
    IF step(s, m, llm, tool, NoCall).llm_calls >= 2 THEN SummaryOutcomes ELSE {NoCall}

Init ==
    /\ max_iterations \in 0..MaxIterations
    /\ metrics = NewMetrics
    /\ pc = "idle"
    /\ initial = AgentState(<<>>, <<>>)
    /\ state = AgentState(<<>>, <<>>)
    /\ calls = 0
    /\ llm_calls = 0
    /\ last = NoStep
    /\ stale = FALSE
    /\ crash = NoCrash
    /\ req = [r \in Requests |-> IdleRequest]
    /\ scr = NewScraper
    /\ bm = NewBrowserManager
    /\ fet = NewFetcher

\* A run that keeps the metrics the agent holds
KeepMetrics(m) == m

\* self._agent._metrics = ExecutionMetrics() at the start of run
ResetMetrics(m) == NewMetrics

\* AgentRunner.run, up to the loop: state = initial_state, fresh metrics
RunStart ==
    /\ pc \in {"idle", "returned", "raised"}
    /\ \E s \in InitialStates :
         /\ initial' = s
         /\ state' = s
    /\ metrics' = ResetMetrics(metrics)
    /\ stale' = (is_stuck(metrics) \/ should_give_up(metrics))
    /\ pc' = "running"
    /\ calls' = 0
    /\ llm_calls' = 0
    /\ last' = NoStep
    /\ crash' = NoCrash
    /\ UNCHANGED <<max_iterations, others>>

\* A loop condition that lets the step count reach one past the cap
LoopConditionInclusive(s, cap) ==
    ~Truthy(s.final_answer) /\ ~Truthy(s.error) /\ s.step_count <= cap

\* The condition of run's while loop
LoopCondition(s, cap) ==
    ~Truthy(s.final_answer) /\ ~Truthy(s.error) /\ s.step_count < cap

\* One iteration of run's loop: state = await self._agent.step(state)
RunStep ==
    /\ pc = "running"
    /\ LoopCondition(state, max_iterations)
    /\ \E llm \in LLMOutcomes :
       \E tool \in ToolOutcomesFor(state, metrics, llm) :
       \E summ \in SummaryOutcomesFor(state, metrics, llm, tool) :
       \E rec \in {StepRecord("run", state, metrics, llm, tool, summ, last.parsed)} :
             /\ state' = rec.out
             /\ initial' = IF calls = 0 THEN rec.input_after ELSE initial
             /\ metrics' = rec.after
             /\ calls' = calls + 1
             /\ llm_calls' = llm_calls + rec.llm_calls
             /\ last' = rec
    /\ stale' = (stale /\ calls = 0)
    /\ UNCHANGED <<max_iterations, pc, crash, others>>

\* The exceptions a step of an agent raises
StepExceptions == {T("Agent crashed unexpectedly")}

\* A runner that turns an exception of step into an error state
RunCatchesException(s, exc) ==
    [pc |-> "returned", state |-> [s EXCEPT !.error = Some(exc)], raised |-> None]

\* How run ends when the awaited step raises exc: the loop has no try, the
\* exception leaves run and nothing is returned
RunOnException(s, exc) == [pc |-> "raised", state |-> s, raised |-> Some(exc)]

\* An iteration of run's loop in which self._agent.step raises
RunStepRaises ==
    /\ pc = "running"
    /\ LoopCondition(state, max_iterations)
    /\ \E exc \in StepExceptions :
       \E end \in {RunOnException(state, exc)} :
             /\ pc' = end.pc
             /\ state' = end.state
             /\ crash' = [step |-> Some(exc), run |-> end.raised]
    /\ calls' = calls + 1
    /\ UNCHANGED <<max_iterations, metrics, initial, llm_calls, last, stale, others>>

MaxIterationsError(cap) ==
    T("Max iterations (") \o T(Str(cap)) \o T(") reached without final answer.")

\* A return that forgets the cap error
RunResultAsIs(s, cap) == s

\* The state run returns once its loop has ended
RunResult(s, cap) ==
    IF ~Truthy(s.final_answer) /\ ~Truthy(s.error)
    THEN [s EXCEPT !.error = Some(MaxIterationsError(cap))]
    ELSE s

\* The instances at the end of run: the cap error is set on a model_copy
RunObjects(s, cap) ==
    IF ~Truthy(s.final_answer) /\ ~Truthy(s.error)
    THEN model_copy(s, RunResult(s, cap))
    ELSE [self |-> s, result |-> s, fresh |-> FALSE]

\* The end of run: the loop condition is false
RunReturn ==
    /\ pc = "running"
    /\ ~LoopCondition(state, max_iterations)
    /\ state' = RunObjects(state, max_iterations).result
    /\ initial' = IF calls = 0 THEN RunObjects(state, max_iterations).self ELSE initial
    /\ pc' = "returned"
    /\ UNCHANGED <<max_iterations, metrics, calls, llm_calls, last, stale, crash, others>>

\* A caller other than the runner calls agent.step on a state of its own, as
\* the unit tests do.  Nothing resets the agent's metrics between such calls.
DirectStep ==
    /\ pc = "idle"
    /\ Len(metrics.action_history) <= MaxHistory
    /\ \E s \in DirectStates :
       \E llm \in LLMOutcomesFor(s, DirectLLMOutcomes) :
       \E tool \in ToolOutcomesFor(s, metrics, llm) :
       \E summ \in SummaryOutcomesFor(s, metrics, llm, tool) :
       \E rec \in {StepRecord("direct", s, metrics, llm, tool, summ, NoParse)} :
             /\ metrics' = rec.after
             /\ last' = rec
    /\ UNCHANGED <<max_iterations, pc, initial, state, calls, llm_calls, stale, crash,
                   others>>

Next == RunStart \/ RunStep \/ RunReturn \/ DirectStep

Spec == Init /\ [][Next]_vars

\* A run that is scheduled finishes its loop: the steps of a run and its
\* return are taken as long as they stay enabled.
FairSpec == Spec /\ WF_vars(RunStep) /\ WF_vars(RunReturn)

\* The runner with any Agent: a step returns a state or raises
RunnerNext == RunStart \/ RunStep \/ RunStepRaises \/ RunReturn

RunnerSpec == Init /\ [][RunnerNext]_vars

(***************************************************************************)
(* Concurrent requests.  main.py builds one ReActAgent and one AgentRunner *)
(* for the process, and web.run_agent awaits runner.run for every request: *)
(* the runs interleave at the awaits of llm.generate and tool.execute and  *)
(* all of them read and write the one agent._metrics.                      *)
(***************************************************************************)
\* The responses of the planning call in the concurrent runs
ConcLLMOutcomes ==
    { Returns(JsonObject(T("Final Answer"), T("42"))),
      Returns(T("Sure:") \o T(" ")
                  \o JsonObject(T("PARSER"), T("emails") \o T("\\n") \o T("a@b.example"))) }

\* The outcomes of tool.execute in the concurrent runs
ConcToolOutcomes == {Returns(T("Hi")), Raises(T("Network error"))}

\* The request after the part of step that runs between the return of
\* llm.generate and the await of tool.execute (or the return of step): here
\* is the pending step with the agent's metrics, mine the same step with
\* the request's own.
Planned(q, llm, here, mine) ==
    IF here.executed
    THEN [q EXCEPT !.pc = "tool", !.llm = llm, !.ran = TRUE, !.own_ran = mine.executed]
    ELSE [q EXCEPT !.state = here.state, !.ran = FALSE, !.own_ran = mine.executed]

\* The request after the part of step that follows the return of
\* tool.execute
Observed(q, here, mine) ==
    [q EXCEPT !.pc = "loop", !.state = here.state, !.llm = NoCall,
              !.own = mine.metrics]

\* runner.run is called for request r: it resets the agent's metrics
ConcRunStart(r) ==
    /\ req[r].pc = "idle"
    /\ metrics' = ResetMetrics(metrics)
    /\ req' = [req EXCEPT ![r] = [IdleRequest EXCEPT !.pc = "loop"]]
    /\ UNCHANGED <<max_iterations, concOthers>>

\* The planning call of a step of request r returns, and the step goes on
\* to its next await
ConcPlan(r) ==
    /\ req[r].pc = "loop"
    /\ LoopCondition(req[r].state, max_iterations)
    /\ \E llm \in ConcLLMOutcomes :
       \E here \in {step(req[r].state, metrics, llm, NoCall, NoCall)} :
       \E mine \in {step(req[r].state, req[r].own, llm, NoCall, NoCall)} :
             req' = [req EXCEPT ![r] = Planned(req[r], llm, here, mine)]
    /\ UNCHANGED <<max_iterations, metrics, concOthers>>

\* tool.execute returns or raises in a step of request r, and the step
\* records the action and returns
ConcObserve(r) ==
    /\ req[r].pc = "tool"
    /\ \E tool \in ConcToolOutcomes :
       \E here \in {step_tool(req[r].state, metrics, Parsed(req[r].llm.text),
                              req[r].state.scratchpad
                                  \o StepBlock(req[r].state, Parsed(req[r].llm.text)),
                              tool, NoCall)} :
       \E mine \in {step_tool(req[r].state, req[r].own, Parsed(req[r].llm.text),
                              req[r].state.scratchpad
                                  \o StepBlock(req[r].state, Parsed(req[r].llm.text)),
                              tool, NoCall)} :
             /\ metrics' = here.metrics
             /\ req' = [req EXCEPT ![r] = Observed(req[r], here, mine)]
    /\ UNCHANGED <<max_iterations, concOthers>>

\* The loop of request r has ended and run returns
ConcReturn(r) ==
    /\ req[r].pc = "loop"
    /\ ~LoopCondition(req[r].state, max_iterations)
    /\ req' = [req EXCEPT ![r].pc = "returned",
                          ![r].state = RunResult(req[r].state, max_iterations)]
    /\ UNCHANGED <<max_iterations, metrics, concOthers>>

ConcNext ==
    \E r \in Requests :
        ConcRunStart(r) \/ ConcPlan(r) \/ ConcObserve(r) \/ ConcReturn(r)

ConcSpec == Init /\ [][ConcNext]_vars

(***************************************************************************)
(* ScraperTool.execute, one call after the other on one tool               *)
(***************************************************************************)
\* The call of execute is over: it returned or raised outcome
Finished(s, outcome, failed) ==
    [s EXCEPT !.pc = "done", !.result = outcome, !.failed = failed,
              !.attempt = 0, !.read = 0, !.wake = 0, !.pending = NoCall]

\* execute up to the politeness gate, for input_data = input and its
\* normalized URL
execute_start(s, input, url) ==
    IF urlparse_raises(url)
    THEN Finished([s EXCEPT !.input = input, !.url = url, !.context = "none", !.http = NoHttp,
                            !.static = NoCall, !.rendered = FALSE, !.extracted = FALSE,
                            !.tries = <<>>, !.slept = <<>>],
                  Raises(T("Invalid IPv6 URL")), TRUE)
    ELSE IF ~is_valid_url(url)
    THEN Finished([s EXCEPT !.input = input, !.url = url, !.context = "none", !.http = NoHttp,
                            !.static = NoCall, !.rendered = FALSE, !.extracted = FALSE,
                            !.tries = <<>>, !.slept = <<>>],
                  Returns(T("<x>") \o T(" Invalid URL: ") \o input), TRUE)
    ELSE [s EXCEPT !.pc = "gate", !.input = input, !.url = url, !.attempt = 0,
                   !.pending = NoCall, !.result = NoCall, !.failed = FALSE,
                   !.context = "none", !.http = NoHttp, !.static = NoCall,
                   !.rendered = FALSE, !.extracted = FALSE,
                   !.tries = <<>>, !.slept = <<>>]

\* The call leaves _respect_politeness at the moment at, having recorded the
\* time recorded for its host, and goes on to fetch
pass_gate(s, recorded, at) ==
    [s EXCEPT !.pc = IF is_js_heavy_domain(s.url) THEN "js_browser" ELSE "static",
              !.attempt = 1,
              !.now = at,
              !.times[netloc(s.url)] = recorded,
              !.previous[netloc(s.url)] = s.passed[netloc(s.url)],
              !.passed[netloc(s.url)] = at]

\* _respect_politeness up to its await, or to its end when it does not
\* sleep: last and now are read, and the sleep is POLITE_DELAY - elapsed +
\* jitter
respect_politeness(s, jitter) ==
    IF s.times[netloc(s.url)] # 0 /\ s.now - s.times[netloc(s.url)] < PoliteDelay
    THEN [s EXCEPT !.pc = "sleeping", !.read = s.now,
                   !.wake = s.now + PoliteDelay - (s.now - s.times[netloc(s.url)])
                                + jitter]
    ELSE pass_gate([s EXCEPT !.read = s.now], s.now, s.now)

\* Time passes between two calls
ScrapeTick ==
    /\ scr.pc \in {"idle", "done"}
    /\ scr.now < MaxTime
    /\ scr' = [scr EXCEPT !.now = @ + 1]
    /\ UNCHANGED scraperOthers

\* execute(input_data) is called
ScrapeCall ==
    /\ scr.pc \in {"idle", "done"}
    /\ scr.now + PoliteDelay + MaxJitter <= MaxTime
    /\ \E input \in ScrapeInputs :
           scr' = execute_start(scr, input, normalize_url(Strip(input)))
    /\ UNCHANGED scraperOthers

\* The call reaches _respect_politeness
ScrapeGate ==
    /\ scr.pc = "gate"
    /\ \E jitter \in 0..MaxJitter : scr' = respect_politeness(scr, jitter)
    /\ UNCHANGED scraperOthers

\* asyncio.sleep(wait) is over: the time read before the sleep is recorded
ScrapeWake ==
    /\ scr.pc = "sleeping"
    /\ scr' = pass_gate(scr, scr.read, scr.wake)
    /\ UNCHANGED scraperOthers

\* One attempt of StaticScraper.scrape, with the asyncio.sleep(2**attempt)
\* that follows it when there is another attempt, and what execute does
\* with the result
ScrapeStatic ==
    /\ scr.pc = "static"
    /\ \E http \in HttpOutcomes :
       \E r \in {static_attempt(scr.attempt, http)} :
       \E s \in {[scr EXCEPT !.http = http, !.static = r,
                              !.extracted = static_extracts(http),
                              !.tries = Append(@, http.kind)]} :
           scr' = IF r = NoCall
                  THEN [s EXCEPT !.attempt = @ + 1,
                                 !.now = @ + 2 ^ scr.attempt,
                                 !.slept = Append(@, 2 ^ scr.attempt)]
                  ELSE IF result_needs_js(r.text) THEN [s EXCEPT !.pc = "js_browser"]
                  ELSE Finished(s, r, StartsWithMarker(r.text))
    /\ UNCHANGED scraperOthers

\* A stage of JSScraper.scrape outside its try block ends with outcome: an
\* exception leaves scrape and execute
js_stage(s, outcome, next) ==
    IF outcome.ok THEN [s EXCEPT !.pc = next] ELSE Finished(s, Raises(outcome.text), TRUE)

\* browser = await self._browser_manager.get_browser()
JsGetBrowser ==
    /\ scr.pc = "js_browser"
    /\ \E o \in StageOutcomes :
           scr' = js_stage([scr EXCEPT !.rendered = TRUE], o, "js_context")
    /\ UNCHANGED scraperOthers

\* context = await browser.new_context(...)
JsNewContext ==
    /\ scr.pc = "js_context"
    /\ \E o \in StageOutcomes :
           scr' = js_stage([scr EXCEPT !.context = IF o.ok THEN "open" ELSE @], o, "js_page")
    /\ UNCHANGED scraperOthers

\* page = await context.new_page()
JsNewPage ==
    /\ scr.pc = "js_page"
    /\ \E o \in StageOutcomes : scr' = js_stage(scr, o, "js_render")
    /\ UNCHANGED scraperOthers

\* The try block of JSScraper.scrape with its except clauses
JsRender ==
    /\ scr.pc = "js_render"
    /\ \E render \in RenderOutcomes :
           scr' = [scr EXCEPT !.pc = "js_close", !.pending = js_render(scr.url, render),
                              !.failed = render.kind # "html",
                              !.extracted = @ \/ render.kind = "html"]
    /\ UNCHANGED scraperOthers

\* finally: await context.close()
JsClose ==
    /\ scr.pc = "js_close"
    /\ \E o \in StageOutcomes :
           scr' = IF o.ok
                  THEN Finished([scr EXCEPT !.context = "closed"], scr.pending, scr.failed)
                  ELSE Finished(scr, Raises(o.text), TRUE)
    /\ UNCHANGED scraperOthers

ScraperNext ==
    \/ ScrapeTick \/ ScrapeCall \/ ScrapeGate \/ ScrapeWake \/ ScrapeStatic
    \/ JsGetBrowser \/ JsNewContext \/ JsNewPage \/ JsRender \/ JsClose

\* The scraper of a process whose runner has the largest cap
ScraperInit == Init /\ max_iterations = MaxIterations

ScraperSpec == ScraperInit /\ [][ScraperNext]_vars

(***************************************************************************)
(* BrowserManager.get_browser, called by concurrent tasks                  *)
(***************************************************************************)
\* Task c calls get_browser and reaches async with self._lock
BmCall(c) ==
    /\ bm.pc[c] \in {"idle", "done", "failed"}
    /\ bm.gets[c] < MaxGets
    /\ bm' = IF acquire_at_once(bm)
             THEN [bm EXCEPT !.locked = TRUE, !.pc[c] = "check", !.gets[c] = @ + 1]
             ELSE [bm EXCEPT !.queue = Append(@, c), !.pc[c] = "queued",
                             !.gets[c] = @ + 1, !.waited[c] = TRUE]
    /\ UNCHANGED browserOthers

\* The lock was released and task c is the first of the tasks waiting
BmWake(c) ==
    /\ bm.pc[c] = "queued"
    /\ ~bm.locked
    /\ Head(bm.queue) = c
    /\ bm' = [bm EXCEPT !.locked = TRUE, !.queue = Tail(@), !.pc[c] = "check"]
    /\ UNCHANGED browserOthers

\* if self._browser is None: start Playwright, else return self._browser
BmCheck(c) ==
    /\ bm.pc[c] = "check"
    /\ bm' = IF bm.browser = 0 THEN [bm EXCEPT !.pc[c] = "starting"]
             ELSE leave_lock(bm, c, "done", bm.browser)
    /\ UNCHANGED browserOthers

\* await async_playwright().start() returns a new driver, which is stored
\* and asked to launch, or raises
BmStart(c) ==
    /\ bm.pc[c] = "starting"
    /\ \E ok \in BOOLEAN :
           bm' = IF ok THEN [bm EXCEPT !.pc[c] = "launching",
                                       !.playwright = bm.starts + 1,
                                       !.starts = @ + 1,
                                       !.drv[c] = bm.starts + 1]
                 ELSE leave_lock(bm, c, "failed", 0)
    /\ UNCHANGED browserOthers

\* await self._playwright.chromium.launch(...) returns a new browser, which
\* is stored and returned, or raises; a driver that has been stopped
\* launches nothing
BmLaunch(c) ==
    /\ bm.pc[c] = "launching"
    /\ \E ok \in {TRUE, FALSE} \ (IF bm.drv[c] \in bm.stopped THEN {TRUE} ELSE {}) :
           bm' = IF ok
                 THEN leave_lock([bm EXCEPT !.browser = bm.launches + 1,
                                            !.launches = @ + 1,
                                            !.launched_by = Append(@, bm.drv[c])],
                                 c, "done", bm.launches + 1)
                 ELSE leave_lock(bm, c, "failed", 0)
    /\ UNCHANGED browserOthers

BrowserNext ==
    \E c \in Callers : BmCall(c) \/ BmWake(c) \/ BmCheck(c) \/ BmStart(c) \/ BmLaunch(c)

\* The browser manager of a process whose runner has the largest cap
BrowserInit == Init /\ max_iterations = MaxIterations

BrowserSpec == BrowserInit /\ [][BrowserNext]_vars

(***************************************************************************)
(* BrowserManager.close, called while tasks call get_browser               *)
(***************************************************************************)
\* close is called: `if self._browser:` and the await of its close, or the
\* rest of close when there is no browser
CloseCall ==
    /\ bm.closer.pc \in {"idle", "done", "failed"}
    /\ bm.closer.calls < MaxCloses
    /\ close_may_start(bm)
    /\ bm' = IF bm.browser # 0
             THEN [bm EXCEPT !.closer = [pc |-> "closing", target |-> bm.browser,
                                         calls |-> @.calls + 1]]
             ELSE close_driver([bm EXCEPT !.closer.calls = @ + 1])
    /\ UNCHANGED browserOthers

\* await self._browser.close() returns, self._browser = None and the rest
\* of close follow; or it raises, and close is left
CloseBrowser ==
    /\ bm.closer.pc = "closing"
    /\ \E ok \in BOOLEAN :
           bm' = IF ok
                 THEN close_driver([bm EXCEPT !.closed = @ \cup {bm.closer.target},
                                              !.browser = 0])
                 ELSE [bm EXCEPT !.closer.pc = "failed", !.closer.target = 0]
    /\ UNCHANGED browserOthers

\* await self._playwright.stop() returns and self._playwright = None
\* follows; or it raises, and close is left
CloseStop ==
    /\ bm.closer.pc = "stopping"
    /\ \E ok \in BOOLEAN :
           bm' = IF ok
                 THEN [bm EXCEPT !.stopped = @ \cup {bm.closer.target},
                                 !.playwright = 0,
                                 !.closer.pc = "done", !.closer.target = 0]
                 ELSE [bm EXCEPT !.closer.pc = "failed", !.closer.target = 0]
    /\ UNCHANGED browserOthers

ShutdownNext == BrowserNext \/ CloseCall \/ CloseBrowser \/ CloseStop

ShutdownSpec == BrowserInit /\ [][ShutdownNext]_vars

(***************************************************************************)
(* FetcherTool.execute, one call after the other on one tool               *)
(***************************************************************************)
\* The iteration of the loop of execute that meets http, and the end of the
\* loop when that iteration was the last one and ended in `continue`
fetch_iteration(f, http) ==
    LET met == [f EXCEPT !.gets = @ + 1,
                         !.first = IF f.attempt = 0 THEN http ELSE @,
                         !.second = IF f.attempt = 0 THEN @ ELSE http]
    IN  IF fetch_attempt(f.attempt, f.url, http) # NoCall
        THEN [met EXCEPT !.pc = "done", !.attempt = 0,
                         !.result = fetch_attempt(f.attempt, f.url, http)]
        ELSE IF f.attempt + 1 < 2
        THEN [met EXCEPT !.attempt = @ + 1]
        ELSE [met EXCEPT !.pc = "done", !.attempt = 0, !.result = FetchFallThrough(f.url)]

\* execute(input_data) is called
FetchCall ==
    /\ fet.pc \in {"idle", "done"}
    /\ fet.calls < MaxFetches
    /\ \E input \in FetchInputs :
           fet' = [fet EXCEPT !.pc = "loop", !.input = input, !.url = fetch_url(input),
                              !.attempt = 0, !.gets = 0, !.first = NoFetch,
                              !.second = NoFetch, !.result = NoCall, !.calls = @ + 1]
    /\ UNCHANGED fetcherOthers

\* One iteration of the loop of execute
FetchAttempt ==
    /\ fet.pc = "loop"
    /\ \E http \in FetchOutcomes : fet' = fetch_iteration(fet, http)
    /\ UNCHANGED fetcherOthers

FetcherNext == FetchCall \/ FetchAttempt

\* The fetcher of a process whose runner has the largest cap
FetcherInit == Init /\ max_iterations = MaxIterations

FetcherSpec == FetcherInit /\ [][FetcherNext]_vars

(***************************************************************************)
(* Properties                                                              *)
(***************************************************************************)
\* A call of step has been made and recorded
Stepped == last.kind # "none"

\* The state run's loop ended on, before the cap error is added
LoopExit == IF calls = 0 THEN initial ELSE last.out

\* The states a request starts from: AgentState() and those of the HTTP
\* boundary
FreshStates == {AgentState(<<>>, <<>>)} \cup {HttpInitialState(u) : u \in UserRequests}

\* C1: step on a state whose final_answer or error is set (non-empty)
\* returns that state unchanged in all five fields, calls neither the LLM
\* nor a tool, and leaves the execution metrics as they were.
C1_TerminalStepIsIdentity ==
    (Stepped /\ (Truthy(last.in.final_answer) \/ Truthy(last.in.error)))
        => /\ last.out = last.in
           /\ last.llm_calls = 0
           /\ ~last.executed
           /\ last.after = last.before

\* step was called on a terminal state while the metrics held a recorded
\* action
C1_Witness ==
    /\ Stepped
    /\ Truthy(last.in.error)
    /\ ~Truthy(last.in.final_answer)
    /\ last.before.action_history # <<>>

\* C2: whenever run has returned, the state it returned has a non-empty
\* final_answer or a non-empty error.
C2_RunReturnsAnswerOrError ==
    pc = "returned" => (Truthy(state.final_answer) \/ Truthy(state.error))

\* run returned after a last step that left the state non-terminal
C2_Witness ==
    /\ pc = "returned"
    /\ calls > 0
    /\ ~Truthy(last.out.final_answer)
    /\ ~Truthy(last.out.error)

\* C3: a run started at step_count 0 in which no step set final_answer or
\* error made exactly max_iterations calls of step and returned the error
\* "Max iterations (<max_iterations>) reached without final answer.", with
\* final_answer still unset and step_count equal to max_iterations.
C3_RunStopsAtCap ==
    (/\ pc = "returned"
     /\ initial.step_count = 0
     /\ ~Truthy(LoopExit.final_answer)
     /\ ~Truthy(LoopExit.error))
        => /\ calls = max_iterations
           /\ state.error = Some(MaxIterationsError(max_iterations))
           /\ state.final_answer = LoopExit.final_answer
           /\ ~Truthy(state.final_answer)
           /\ state.step_count = max_iterations

\* a run of at least two steps, none of which set a field, hit the cap
C3_Witness ==
    /\ pc = "returned"
    /\ initial.step_count = 0
    /\ max_iterations >= 2
    /\ calls = max_iterations
    /\ state.final_answer.isNone
    /\ state.error = Some(MaxIterationsError(max_iterations))

\* The steps run can still make: max_iterations - initial step_count, or 0
StepBudget ==
    IF max_iterations > initial.step_count THEN max_iterations - initial.step_count
    ELSE 0

\* The parts of C4 and of its original wording that agree: every step on a
\* non-terminal state raises step_count by exactly one; run makes at most
\* max_iterations - initial step_count calls of step; it makes none, and
\* no LLM call, when the initial step_count already reaches the cap.
C4_StepBound ==
    /\ (Stepped /\ ~Truthy(last.in.final_answer) /\ ~Truthy(last.in.error))
           => last.out.step_count = last.in.step_count + 1
    /\ pc \in {"running", "returned"} => calls <= StepBudget
    /\ (pc \in {"running", "returned"} /\ initial.step_count >= max_iterations)
           => (calls = 0 /\ llm_calls = 0)

\* What run returns for an initial state already at the cap
C4_ResultAtCap ==
    (pc = "returned" /\ initial.step_count >= max_iterations)
        => state = IF Truthy(initial.final_answer) \/ Truthy(initial.error)
                   THEN initial
                   ELSE [initial EXCEPT
                           !.error = Some(MaxIterationsError(max_iterations))]

\* C4 (as amended): run always terminates; every step on a non-terminal
\* state raises step_count by exactly one, so run makes at most
\* max_iterations - initial step_count calls of step; when the initial
\* step_count already reaches the cap it makes none and no LLM call, and
\* returns the initial state with the cap error if that state is not
\* terminal, and the initial state itself if it is.
C4_RunTerminates ==
    /\ [](C4_StepBound /\ C4_ResultAtCap)
    /\ (pc = "running" ~> pc = "returned")

\* run returned the cap error without a step for a state already at the cap
C4_Witness ==
    /\ pc = "returned"
    /\ initial.step_count = 2
    /\ max_iterations = 2
    /\ calls = 0
    /\ state.error = Some(MaxIterationsError(2))

\* C4 (as stated): as above, but whenever the initial step_count already
\* reaches the cap run returns the cap error.
C4_AsStated ==
    /\ C4_StepBound
    /\ (pc = "returned" /\ initial.step_count >= max_iterations)
           => state.error = Some(MaxIterationsError(max_iterations))

\* The JSON objects whose action is Final Answer and whose action_input is a
FinalAnswerObjects(a) ==
    {JsonObject(T("Final Answer"), a), JsonObjectActionFirst(T("Final Answer"), a)}

\* C5: when the response is a JSON object whose action is Final Answer with
\* action_input a, step on a fresh state returns final_answer = a,
\* step_count = 1 and no error, the transcript gains the block of the step,
\* no tool is executed and the execution metrics do not change.
C5_FinalAnswerObject ==
    \A a \in FinalAnswerInputs : \A r \in FinalAnswerObjects(a) :
        (Stepped /\ last.in \in FreshStates /\ last.llm = Returns(r))
            => /\ last.out.final_answer = Some(a)
               /\ last.out.step_count = 1
               /\ last.out.error = None
               /\ last.out.scratchpad =
                      last.in.scratchpad
                          \o StepBlock(last.in, [action |-> "Final Answer",
                                                 action_input |-> a,
                                                 thought |-> T("t")])
               /\ ~last.executed
               /\ last.after = last.before

\* C6: a step of a run whose parsed action is Final Answer ends the loop
\* whatever the action_input: the state it returns is terminal with error
\* unset, no step of the run follows it, and run returns that state.
C6_FinalAnswerEndsRun ==
    /\ (last.kind = "run" /\ last.parsed.action = "Final Answer")
           => /\ Truthy(last.out.final_answer) \/ Truthy(last.out.error)
              /\ last.out.error = None
              /\ pc = "returned" => state = last.out
    /\ last.kind = "run" => last.previous.action # "Final Answer"

\* C7: when the response holds no JSON object of the three keys, or the
\* object is not JSON, step returns final_answer = the raw response text,
\* error unset and step_count one greater, and executes no tool.
C7_FallbackIsRawResponse ==
    \A r \in UnstructuredResponses :
        (Stepped /\ last.llm = Returns(r))
            => /\ last.out.final_answer = Some(r)
               /\ ~Truthy(last.out.error)
               /\ last.out.step_count = last.in.step_count + 1
               /\ ~last.executed

\* C8: when the planning call of a step raises, step returns a terminal
\* state with error "LLM service unavailable: <cause>", the apology as
\* final_answer and step_count one greater; no tool is executed and the
\* execution metrics are unchanged.
C8_LLMFailureIsTerminal ==
    (Stepped /\ ~last.llm.ok)
        => /\ last.out.error = Some(T("LLM service unavailable: ") \o last.llm.text)
           /\ last.out.final_answer = Some(LLMUnavailableUserMsg)
           /\ Truthy(last.out.error) /\ Truthy(last.out.final_answer)
           /\ last.out.step_count = last.in.step_count + 1
           /\ last.out.messages = last.in.messages
           /\ ~last.executed
           /\ last.llm_calls = 1
           /\ last.after = last.before

\* the planning call raised in a step that followed a recorded tool action
C8_Witness ==
    /\ last.kind = "run"
    /\ ~last.llm.ok
    /\ last.before.action_history # <<>>

\* C9: when two consecutive steps of a run select the same tool with the
\* same input, the second returns an error and the final_answer that hints
\* at blocking or authentication, and does not execute the tool.
C9_RepeatedActionStops ==
    (/\ last.kind = "run"
     /\ last.parsed.action \in tool_registry
     /\ last.previous.action = last.parsed.action
     /\ last.previous.action_input = last.parsed.action_input)
        => /\ Truthy(last.out.error)
           /\ last.out.final_answer = Some(StuckUserMsg)
           /\ ~last.executed

\* C10: once the failure counter of the run is 2 or more, the next step
\* returns a terminal state whatever action the response chooses; when the
\* action names a tool, the tool is not executed and error is set.
C10_GiveUpAfterFailures ==
    (last.kind = "run" /\ last.before.failure_count >= FailureLimit /\ last.llm.ok)
        => /\ Truthy(last.out.final_answer) \/ Truthy(last.out.error)
           /\ last.parsed.action \in tool_registry
                  => (~last.executed /\ Truthy(last.out.error))

\* The observation step appends for the outcome of tool.execute
Observation(tool) ==
    IF tool.ok THEN truncate_result(tool.text)
    ELSE truncate_result(T("Tool execution error: ") \o tool.text)

\* C11: a step that executes a tool other than the scraper and the fetcher
\* returns a non-terminal state, final_answer and error left unset,
\* step_count one greater and the observation appended to the transcript,
\* whether the tool returned or raised; an exception becomes the observation
\* "Tool execution error: <message>" and raises the failure counter by one.
C11_OtherToolContinues ==
    (Stepped /\ last.executed /\ last.parsed.action \notin URLTools)
        => /\ ~Truthy(last.out.final_answer) /\ ~Truthy(last.out.error)
           /\ last.out.final_answer = last.in.final_answer
           /\ last.out.error = last.in.error
           /\ last.out.step_count = last.in.step_count + 1
           /\ last.out.scratchpad =
                  last.in.scratchpad \o StepBlock(last.in, last.parsed)
                      \o T("\n<chart> Result: ") \o Observation(last.tool)
           /\ last.after.action_history =
                  Append(last.before.action_history,
                         [action |-> last.parsed.action, input_hash |-> <<>>])
           /\ ~last.tool.ok =>
                  /\ Observation(last.tool) = T("Tool execution error: ") \o last.tool.text
                  /\ last.after.failure_count = last.before.failure_count + 1

\* the parser was executed in a run and raised
C11_Witness ==
    /\ last.kind = "run"
    /\ last.executed
    /\ last.parsed.action = "parser"
    /\ ~last.tool.ok

\* C12: every step that executes the scraper or the fetcher returns a
\* terminal state with final_answer set and error unset, whatever the tool
\* produced and also when it raised.
C12_URLToolTerminates ==
    (Stepped /\ last.executed /\ last.parsed.action \in URLTools)
        => /\ Truthy(last.out.final_answer)
           /\ ~Truthy(last.out.error)
           /\ last.out.error = last.in.error
           /\ last.out.step_count = last.in.step_count + 1

\* the scraper or the fetcher was executed and raised
C12_Witness ==
    /\ Stepped
    /\ last.executed
    /\ last.parsed.action \in URLTools
    /\ ~last.tool.ok

\* C13: error is set only by a failed planning call, by loop detection or
\* the failure limit, or by run's iteration cap; a step that executed a
\* tool leaves error as it was, whatever the tool returned or raised.
C13_ErrorSources ==
    /\ (Stepped /\ last.out.error # last.in.error)
           => \/ /\ ~last.llm.ok
                 /\ last.out.error = Some(T("LLM service unavailable: ") \o last.llm.text)
              \/ /\ is_stuck(last.before)
                 /\ last.out.error =
                        Some(T("Stuck: repeated '") \o T(last.parsed.action)
                                 \o T("' with same input"))
              \/ /\ should_give_up(last.before)
                 /\ last.out.error = Some(T("Too many failures"))
    /\ (Stepped /\ last.executed) => last.out.error = last.in.error
    /\ pc = "returned"
           => \/ state.error = LoopExit.error
              \/ state.error = Some(MaxIterationsError(max_iterations))

\* a tool returned an error text, which was counted as a failure
C13_Witness ==
    /\ Stepped
    /\ last.executed
    /\ last.tool.ok
    /\ is_error_result(last.tool.text)
    /\ last.after.failure_count = last.before.failure_count + 1
    /\ last.out.error.isNone

\* C15: run starts every run with an empty action history and a failure
\* counter of 0: the metrics of a run hold only what its own steps recorded,
\* and neither loop detection nor the failure limit stops the first two tool
\* steps of a run, whatever the agent recorded before the run.
C15_RunStartsWithFreshMetrics ==
    /\ pc \in {"running", "returned"}
           => /\ Len(metrics.action_history) <= calls
              /\ metrics.failure_count <= calls
    /\ (last.kind = "run" /\ calls = 1) => last.before = NewMetrics
    /\ (last.kind = "run" /\ calls <= 2 /\ last.parsed.action \in tool_registry)
           => last.executed

\* the first step of a run executed a tool although the metrics the agent
\* held before the run would have stopped it
C15_Witness ==
    /\ stale
    /\ last.kind = "run"
    /\ calls = 1
    /\ last.executed

\* C14: when two requests run concurrently on the process's agent, loop
\* detection and the failure limit stop a tool step of a request exactly
\* when the actions and failures the request itself recorded since its run
\* started call for it.
C14_RequestsHaveOwnMetrics ==
    \A r \in Requests : req[r].ran = req[r].own_ran

\* C16: if a step raises, run raises that same exception to its caller and
\* returns no state; a run that returns a state had no step that raised.
C16_StepExceptionPropagates ==
    /\ ~crash.step.isNone
           => /\ pc = "raised"
              /\ crash.run = crash.step
    /\ pc = "returned" => crash = NoCrash

\* the second step of a run raised
C16_Witness ==
    /\ pc = "raised"
    /\ calls = 2
    /\ ~crash.run.isNone

\* C17: step and run never modify the state passed in: after a call of step
\* its argument holds the fields it held before, a result that differs from
\* the argument is a new instance, the messages of the result are those of
\* the argument, and while a run is under way and when it returns its
\* argument stays as it was and the state it holds has the same messages.
C17_InputStateUntouched ==
    /\ [](/\ Stepped => /\ last.input_after = last.in
                        /\ last.out # last.in => last.fresh
                        /\ last.out.messages = last.in.messages
          /\ pc \in {"running", "returned"} => state.messages = initial.messages)
    /\ [][pc = "running" => initial' = initial]_vars

\* a run started from a request of the HTTP boundary returned a state that
\* differs from its argument after a step
C17_Witness ==
    /\ pc = "returned"
    /\ calls > 0
    /\ initial.messages # <<>>
    /\ state # initial
    /\ last.fresh

\* C18: ScraperTool.execute returns a string and never raises, whatever its
\* input and whatever the fetch, the browser launch, the creation of the
\* context and the page, the rendering and the close of the context do; the
\* string of a failure begins with a failure marker.
C18_ExecuteNeverRaises ==
    scr.pc = "done"
        => /\ scr.result.ok
           /\ scr.failed => StartsWithMarker(scr.result.text)

\* C19: a call for a host leaves the politeness gate at least the minimum
\* interval after the call before it for that host left it, and the time
\* recorded for the host is the moment the call left the gate.
C19_PolitenessInterval ==
    \A d \in Domains :
        /\ scr.previous[d] # 0 => scr.passed[d] - scr.previous[d] >= PoliteDelay
        /\ scr.pc \notin {"gate", "sleeping"} => scr.times[d] = scr.passed[d]

\* C20: whatever the number of concurrent first calls of get_browser, one
\* browser at most is launched, every call that returns returns the browser
\* the manager holds, which is that one, and later calls launch no other.
C20_BrowserLaunchedOnce ==
    /\ bm.launches <= 1
    /\ bm.browser = bm.launches
    /\ \A c \in Callers : bm.pc[c] = "done" => (bm.got[c] = bm.browser /\ bm.got[c] # 0)
    /\ \A c, d \in Callers :
           (bm.pc[c] = "done" /\ bm.pc[d] = "done") => bm.got[c] = bm.got[d]

\* three tasks called at the same time, two of them waited for the lock, and
\* all of them have received the browser, also from their later calls
C20_Witness ==
    /\ \A c \in Callers : bm.pc[c] = "done" /\ bm.gets[c] = MaxGets
    /\ Cardinality({c \in Callers : bm.waited[c]}) >= 2
    /\ bm.launches = 1

\* C21: every browsing context that a rendered scrape opened is closed by
\* the time the scrape has returned or failed, whichever stage failed.
C21_ContextClosedOnExit ==
    scr.pc = "done" => scr.context # "open"

\* C22: once a GET of the static path is answered with a content type that
\* is neither text/html nor application/xhtml, the call is over (no other
\* GET follows) with the message that names the content type, and it went
\* neither through the text extraction nor through the rendered path.
C22_NonHtmlTypeReported ==
    (scr.http.kind = "response" /\ ~IsHtmlType(scr.http.ctype)) =>
        /\ scr.pc = "done"
        /\ scr.result = Returns(T("<warn>") \o T(" The URL returned ") \o T(scr.http.ctype)
                                    \o T(" content. Only HTML pages can be scraped."))
        /\ ~scr.extracted
        /\ ~scr.rendered

C22_Witness ==
    scr.pc = "done" /\ scr.http.kind = "response" /\ scr.http.ctype = "application/pdf"

\* C23: a content string that execute returns (a result that is no failure
\* string) is at most MAX_LENGTH long plus the length of the truncation
\* marker, and it ends with the marker only when it was cut to MAX_LENGTH.
C23_ContentWithinMaxLength ==
    (scr.pc = "done" /\ scr.result.ok /\ ~StartsWithMarker(scr.result.text)) =>
        /\ TextLen(scr.result.text) <= MaxLength + TextLen(TruncationMarker)
        /\ (Contains(scr.result.text, TruncationMarker[1].a) =>
                TextLen(scr.result.text) = MaxLength + TextLen(TruncationMarker))

\* The step of the agent in which the scraper was called with the input of
\* the latest call and answered with its outcome, on fresh metrics
ScrapedStep ==
    step_tool(HttpInitialState(T("Scrape") \o T(" ") \o scr.input), NewMetrics,
              [action |-> "scraper", action_input |-> scr.input,
               thought |-> T("read the page")],
              <<>>, scr.result, NoCall)

\* C24: a failure string returned by execute (invalid URL, fetch failure
\* after the retries, unexpected fetch error, page load timeout, render
\* error) holds one of the agent's error markers, so that the step which
\* receives it counts a failure and answers with the failed access.
C24_FailureStringsAreErrors ==
    (scr.pc = "done" /\ scr.result.ok /\ scr.result.text # <<>>
                     /\ Head(scr.result.text).a = "<x>") =>
        /\ is_error_result(scr.result.text)
        /\ ScrapedStep.metrics.failure_count = 1
        /\ ScrapedStep.state.final_answer =
               Some(T("<x> Failed to access content:\n\n") \o scr.result.text)

\* C25: a call whose GET was answered with an HTTP error status (400 and
\* above) returns a failure string that names the status code, and the body
\* of the response is not extracted as the content of the page.
C25_ErrorStatusReported ==
    (scr.pc = "done" /\ scr.http.kind = "response" /\ scr.http.status >= 400) =>
        /\ scr.result.ok
        /\ StartsWithMarker(scr.result.text)
        /\ \E i \in 1..Len(scr.result.text) :
               scr.result.text[i].a = StatusText(scr.http.status)
        /\ ~scr.extracted

FetchFailed(http) == http.kind \in {"status", "exception"}

\* C26: a call of FetcherTool.execute that is over has returned a string
\* (it did not raise) after one or two GETs.  It made the second GET exactly
\* when the first one ended in the status 403 or in an exception other than
\* HTTPStatusError; any other error status of the first GET is returned as
\* "HTTP Error <code>: <url>" after that single GET; a second GET that fails
\* is returned as an error string ("HTTP Error <code>: <url>" for a status,
\* "Error fetching <url>: <message>" for an exception); and the return
\* after the loop is never the result.
C26_FetcherReturnsAfterTwoGets ==
    fet.pc = "done" =>
        /\ fet.result # NoCall /\ fet.result.ok
        /\ fet.gets \in {1, 2}
        /\ fet.gets = 2 <=>
               \/ fet.first.kind = "exception"
               \/ fet.first.kind = "status" /\ fet.first.status = 403
        /\ (fet.first.kind = "status" /\ fet.first.status # 403) =>
               fet.result = Returns(HttpErrorText(fet.first.status, fet.url))
        /\ (fet.gets = 2 /\ fet.second.kind = "status") =>
               fet.result = Returns(HttpErrorText(fet.second.status, fet.url))
        /\ (fet.gets = 2 /\ fet.second.kind = "exception") =>
               fet.result = Returns(T("Error fetching ") \o fet.url \o T(": ")
                                        \o fet.second.text)
        /\ fet.result # FetchFallThrough(fet.url)

C26_Witness ==
    /\ fet.pc = "done" /\ fet.gets = 2
    /\ fet.first.kind = "status" /\ fet.first.status = 403
    /\ FetchFailed(fet.second)

\* C27: the action that the parse of a response yields is "Final Answer" or
\* the name of a tool of the registry, whatever the response spelled, so
\* that the lookup of the tool finds it and neither a step nor a run ends
\* with the error "Unknown tool requested: ...".
C27_ParsedActionIsRegistered ==
    /\ (Stepped /\ last.parsed # NoParse) =>
           last.parsed.action \in {"Final Answer"} \cup tool_registry
    /\ \A e \in {state.error, IF Stepped THEN last.out.error ELSE None} :
           Truthy(e) => ~Contains(e.s, "Unknown tool requested: ")

\* a step whose response asked for a tool that the registry does not hold
C27_Witness ==
    /\ Stepped
    /\ last.llm = Returns(JsonObject(T("calculator"), T("42")))
    /\ last.parsed.action = "Final Answer"
    /\ ~last.executed

\* The entry that record_action would append for the parse p
CurrentPair(p) ==
    [action |-> p.action,
     input_hash |-> IF p.action \in URLTools THEN hash_input(p.action_input) ELSE <<>>]

\* The entry of the action executed last before the step, if there is one
RepeatsPrevious(m, p) ==
    /\ m.action_history # <<>>
    /\ m.action_history[Len(m.action_history)] = CurrentPair(p)

\* C28: a step whose response names a tool of the registry stops short of
\* executing it only if the pair (tool, input) is the one executed
\* immediately before, or if two failures are recorded; a tool action that
\* differs from the one executed before it, with fewer than two failures,
\* is executed.
C28_DifferentActionExecuted ==
    (Stepped /\ last.parsed # NoParse /\ last.parsed.action \in tool_registry
             /\ ~last.executed) =>
        \/ RepeatsPrevious(last.before, last.parsed)
        \/ last.before.failure_count >= FailureLimit

\* The metrics gained one entry in a step that executed a tool and none in
\* any other step, and the step did not lower the failure counter
OneEntryPerExecution ==
    Stepped =>
        /\ Len(last.after.action_history) =
               Len(last.before.action_history) + (IF last.executed THEN 1 ELSE 0)
        /\ last.executed =>
               last.after.action_history[Len(last.after.action_history)] =
                   CurrentPair(last.parsed)
        /\ ~last.executed => last.after = last.before
        /\ last.after.failure_count >= last.before.failure_count

\* C29: a step adds exactly one entry to the action history when it executes
\* a tool, whether the tool returned or raised, and leaves the metrics as
\* they were when it executes none (Final Answer, failed planning call,
\* loop detection, failure limit); while a run is under way the failure
\* counter does not decrease, and it never exceeds the number of entries.
C29_OneEntryPerExecution ==
    /\ [](OneEntryPerExecution
            /\ metrics.failure_count <= Len(metrics.action_history))
    /\ [][(pc = "running" /\ pc' = "running") =>
              /\ metrics'.failure_count >= metrics.failure_count
              /\ Len(metrics'.action_history) >= Len(metrics.action_history)]_vars

\* a tool raised: one more entry and one more failure; and a later step of
\* the same run was stopped by the failure limit without any entry
C29_Witness ==
    /\ pc = "running"
    /\ Stepped /\ ~last.executed /\ last.parsed # NoParse
    /\ last.parsed.action \in tool_registry
    /\ last.before.failure_count = FailureLimit
    /\ Len(last.after.action_history) = FailureLimit

\* The error of a state begins with "LLM service unavailable"
ServiceUnavailable(s) ==
    Truthy(s.error) /\ Head(s.error.s).a = "LLM service unavailable: "

\* C30 as stated: a step in which a call of llm.generate failed, the
\* planning call or the summarization call, returns the service-unavailable
\* termination: an error that begins with "LLM service unavailable".
C30_AnyLLMFailureUnavailable ==
    (Stepped /\ (~last.llm.ok \/ ~last.summ.ok)) => ServiceUnavailable(last.out)

\* C30, amended: a failed planning call ends the step with the error "LLM
\* service unavailable: <cause>" and the apology as final answer; a failed
\* summarization call ends it with no error and, as final answer, the
\* warning that names the cause followed by the first 1000 characters of
\* the content; both count the step.
C30_LLMFailureByCall ==
    /\ (Stepped /\ ~last.llm.ok) =>
           /\ last.out.error = Some(T("LLM service unavailable: ") \o last.llm.text)
           /\ last.out.final_answer = Some(LLMUnavailableUserMsg)
           /\ last.out.step_count = last.in.step_count + 1
    /\ (Stepped /\ ~last.summ.ok) =>
           /\ last.out.error = last.in.error
           /\ ~ServiceUnavailable(last.out)
           /\ last.out.final_answer =
                  Some(T("<warn> Could not generate summary due to: ") \o last.summ.text
                           \o T("\n\n**Here's the extracted content:**\n\n")
                           \o Take(Strip(Observation(last.tool)), ExcerptLong) \o T("..."))
           /\ last.out.step_count = last.in.step_count + 1

\* the summarization call of a step failed after the tool had answered
C30_Witness ==
    /\ Stepped
    /\ last.llm.ok /\ last.executed /\ last.tool.ok
    /\ last.llm_calls = 2
    /\ ~last.summ.ok

\* A URL tool returned in the latest step
URLToolReturned ==
    Stepped /\ last.executed /\ last.parsed.action \in URLTools /\ last.tool.ok

\* The result that the latest step handed to _evaluate_and_terminate is no
\* error and has MinWords words or more
GoodContent ==
    /\ ~is_error_result(Observation(last.tool))
    /\ WordCount(Strip(Observation(last.tool))) >= MinWords

\* C31: when a URL tool returns a result that is no error and has at least
\* 10 words and the request holds a summary keyword, the step makes one
\* more LLM call and ends with the summary as final answer, or, if that
\* call fails, with the warning and an excerpt as final answer and no error;
\* when the result is an error or has fewer than 10 words, the step makes
\* no summarization call, summary requested or not.
C31_SummaryOnlyForGoodContent ==
    URLToolReturned =>
        /\ (GoodContent /\ wants_summary(last.in)) =>
               /\ last.llm_calls = 2
               /\ last.out.error = last.in.error
               /\ last.out.error.isNone
               /\ last.summ.ok =>
                      last.out.final_answer =
                          Some(T("<memo> **Summary:**\n\n") \o Strip(last.summ.text))
               /\ ~last.summ.ok =>
                      last.out.final_answer =
                          Some(T("<warn> Could not generate summary due to: ")
                                   \o last.summ.text
                                   \o T("\n\n**Here's the extracted content:**\n\n")
                                   \o Take(Strip(Observation(last.tool)), ExcerptLong)
                                   \o T("..."))
        /\ ~GoodContent => last.llm_calls = 1 /\ last.summ = NoCall

\* a summary was requested and made
C31_Witness ==
    /\ URLToolReturned /\ GoodContent /\ wants_summary(last.in)
    /\ last.llm_calls = 2 /\ last.summ.ok
    /\ last.out.final_answer = Some(T("<memo> **Summary:**\n\n") \o T("the gist"))

\* a summary was requested for a result of too few words
C31_WitnessShort ==
    /\ URLToolReturned /\ ~GoodContent /\ wants_summary(last.in)
    /\ last.llm_calls = 1

\* t.startswith(p)
IsPrefix(p, t) == Len(p) <= Len(t) /\ SubSeq(t, 1, Len(p)) = p

\* C32: a step that obtained a response from the planning call and parsed
\* it returns a state whose transcript holds, after the transcript of the
\* input state, the block of the step (step number step_count + 1, thought,
\* action, input), also when the step ends in loop detection, the failure
\* limit or an unknown tool.
C32_StepBlockAppended ==
    (Stepped /\ last.parsed # NoParse) =>
        IsPrefix(last.in.scratchpad \o StepBlock(last.in, last.parsed),
                 last.out.scratchpad)

\* C33: the transcript only grows: the state a step returns has the
\* transcript of the state it received as a prefix, on every path; so has,
\* during a run, each state of the loop with respect to the one before it,
\* and the state that run returns (cap error or not) with respect to the
\* last state of the loop and to the initial state.
C33_TranscriptAppendOnly ==
    /\ []((Stepped => IsPrefix(last.in.scratchpad, last.out.scratchpad))
            /\ (pc \in {"running", "returned"} =>
                    IsPrefix(initial.scratchpad, state.scratchpad)))
    /\ [][(pc = "running" /\ pc' \in {"running", "returned"}) =>
              IsPrefix(state.scratchpad, state'.scratchpad)]_vars

\* a run on a state with a transcript ended with an error termination of
\* a step after an earlier step had added to the transcript
C33_Witness ==
    /\ pc = "returned"
    /\ calls >= 2
    /\ initial.scratchpad # <<>>
    /\ Truthy(state.error)
    /\ Len(state.scratchpad) > Len(initial.scratchpad)
    /\ last.out = state

\* a run ended by the cap after a step
C33_WitnessCap ==
    /\ pc = "returned"
    /\ calls >= 1
    /\ initial.scratchpad # <<>>
    /\ state.error = Some(MaxIterationsError(max_iterations))

\* piece occurs in t as a run of consecutive chunks
HasRun(t, piece) ==
    \E k \in 1..(Len(t) - Len(piece) + 1) : SubSeq(t, k, k + Len(piece) - 1) = piece

\* C34: when the scraper returns content (no error for the agent, at least
\* 10 words) and the request asks for no summary, the final answer of the
\* step holds the whole of the stripped result, whatever its length up to
\* MAX_LENGTH and the marker.
C34_FullContentInAnswer ==
    (scr.pc = "done" /\ scr.result.ok /\ ~is_error_result(scr.result.text)
                     /\ WordCount(Strip(scr.result.text)) >= MinWords) =>
        /\ Truthy(ScrapedStep.state.final_answer)
        /\ HasRun(ScrapedStep.state.final_answer.s, Strip(scr.result.text))

\* What the step makes of the outcome of the scraper before it looks at it
ScrapedRaw ==
    IF scr.result.ok THEN scr.result.text
    ELSE T("Tool execution error: ") \o scr.result.text

\* The first 10000 characters and the marker, or the text as it is
Capped(raw) ==
    IF TextLen(raw) <= ResultCap THEN raw
    ELSE Take(raw, ResultCap) \o T("\n\n... (remaining content truncated)")

\* C35: the result that a step appends to the transcript and hands to the
\* smart termination is the tool's result when that has at most 10000
\* characters, and otherwise its first 10000 characters followed by the
\* truncation marker.
C35_ResultCapped ==
    scr.pc = "done" =>
        /\ ScrapedStep.state.scratchpad = T("\n<chart> Result: ") \o Capped(ScrapedRaw)
        /\ TextLen(ScrapedStep.state.scratchpad)
               <= TextLen(T("\n<chart> Result: ")) + ResultCap
                      + TextLen(T("\n\n... (remaining content truncated)"))
        /\ (~is_error_result(Capped(ScrapedRaw))
               /\ WordCount(Strip(Capped(ScrapedRaw))) >= MinWords) =>
               ScrapedStep.state.final_answer =
                   Some(T("<ok> **Successfully scraped content:**\n\n")
                            \o Strip(Capped(ScrapedRaw)))
        /\ is_error_result(Capped(ScrapedRaw)) =>
               ScrapedStep.state.final_answer =
                   Some(T("<x> Failed to access content:\n\n") \o Capped(ScrapedRaw))

\* the scraper returned a page of more than 10000 characters
C35_Witness ==
    /\ scr.pc = "done" /\ scr.result.ok /\ scr.extracted
    /\ TextLen(scr.result.text) > ResultCap
    /\ TextLen(ScrapedStep.state.scratchpad) > ResultCap

\* The latest step built a prompt: it called the planning model
Prompted == Stepped /\ last.llm_calls >= 1

\* C36: the prompt of a step on a state with step_count 0 is marked as a
\* first attempt and holds no work log, also when the state was built by
\* the HTTP boundary; the prompt of a step on a state with a step_count of
\* 1 or more holds the work log.
C36_FirstPromptWithoutTranscript ==
    /\ (Prompted /\ last.in.step_count = 0) =>
           /\ Contains(last.prompt, "**First attempt.**")
           /\ ~Contains(last.prompt, "**WORK LOG:**")
    /\ (Prompted /\ last.in.step_count >= 1) =>
           /\ Contains(last.prompt, "**WORK LOG:**")
           /\ HasRun(last.prompt, last.in.scratchpad)

\* The call of execute under way or over has taken, or is about to take,
\* the rendered path
UsesRendered == scr.rendered \/ scr.pc = "js_browser"

\* The call is past the choice between the two paths
PathChosen == scr.pc \in {"js_browser", "js_context", "js_page", "js_render", "js_close", "done"}

\* The host of the call is one of the list of sites rendered in a browser
OnJsHeavyList == netloc(scr.url) = "www.youtube.com"

\* The static path returned a result that is neither an error nor a warning
\* and is poor: fewer than MIN_WORDS_POOR words, or a phrase that asks for
\* JavaScript
StaticIsPoor ==
    /\ scr.static # NoCall
    /\ ~(scr.static.text # <<>> /\ Head(scr.static.text).a \in {"<x>", "<warn>"})
    /\ \/ WordCount(Strip(scr.static.text)) < MinWordsPoor
       \/ \E i \in 1..Len(scr.static.text) :
              scr.static.text[i].a \in
                  {"loading", "please enable javascript", "javascript required"}

\* C37: execute takes the rendered path exactly when the host is on the
\* list of JS-heavy sites, and then makes no static GET, or when the static
\* result starts with no error or warning marker and is poor; it enters the
\* rendered path at most once in a call; and a static result that starts
\* with a marker is what execute returns.
C37_RenderedPathChoice ==
    /\ [](PathChosen =>
            /\ UsesRendered <=> (OnJsHeavyList \/ StaticIsPoor)
            /\ OnJsHeavyList => (scr.http = NoHttp /\ scr.static = NoCall)
            /\ (scr.pc = "done" /\ scr.static # NoCall
                    /\ scr.static.text # <<>>
                    /\ Head(scr.static.text).a \in {"<x>", "<warn>"}) =>
                   scr.result = scr.static)
    /\ [][scr'.pc = "js_browser" => (scr.pc # "js_browser" /\ ~scr.rendered)]_vars

\* a call went to the browser after a static result of too few words
C37_Witness ==
    /\ scr.pc = "done" /\ scr.rendered
    /\ ~OnJsHeavyList
    /\ scr.static = Returns(T("Hi"))
    /\ scr.result.ok

\* The GETs of the call that met a timeout or a network error and were not
\* the last one allowed
Transient == {i \in 1..Len(scr.tries) : scr.tries[i] = "timeout" /\ i < RetryAttempts}

\* C38: a call of StaticScraper.scrape makes at most RETRY_ATTEMPTS GETs;
\* it sleeps 2^k seconds after the k-th one when that one failed by a
\* timeout or a network error and k < RETRY_ATTEMPTS, and never otherwise;
\* after the RETRY_ATTEMPTS-th such failure it returns "Failed to fetch URL
\* after N attempts"; a response or another exception ends the loop with
\* no further GET.
C38_RetryWithBackoff ==
    /\ Len(scr.tries) <= RetryAttempts
    /\ \A i \in 1..(Len(scr.tries) - 1) : scr.tries[i] = "timeout"
    /\ scr.slept = [k \in 1..Cardinality(Transient) |-> 2 ^ k]
    /\ scr.tries # <<>> =>
          LET final == scr.tries[Len(scr.tries)] IN
          /\ (final = "timeout" /\ Len(scr.tries) < RetryAttempts) =>
                 (scr.pc = "static" /\ scr.static = NoCall)
          /\ (final = "timeout" /\ Len(scr.tries) = RetryAttempts) =>
                 /\ scr.pc # "static"
                 /\ scr.static =
                        Returns(T("<x>") \o T(" Failed to fetch URL after ")
                                    \o T(Str(RetryAttempts)) \o T(" attempts: ")
                                    \o scr.http.text)
          /\ final # "timeout" => (scr.pc # "static" /\ scr.static # NoCall)

\* every attempt of a call timed out
C38_Witness ==
    /\ scr.pc = "done"
    /\ scr.tries = <<"timeout", "timeout", "timeout">>
    /\ scr.slept = <<2, 4>>

\* a call ended by an exception that is not transient, after one retry
C38_WitnessError ==
    /\ scr.pc = "done"
    /\ scr.tries = <<"timeout", "error">>
    /\ scr.slept = <<2>>

\* The tools executed so far in the run under way or over: run starts with
\* fresh metrics, and every execution adds one entry
RunExecutions == metrics.action_history

\* C39: in a run, the scraper or the fetcher is executed at most once, and
\* no tool is executed after it: the step that executed it left a final
\* answer, which ends the loop of run.
C39_URLToolOnceAndLast ==
    /\ [](pc \in {"running", "returned"} =>
            \A i \in 1..Len(RunExecutions) :
                RunExecutions[i].action \in {"scraper", "fetcher"} =>
                    /\ i = Len(RunExecutions)
                    /\ Truthy(state.final_answer))
    /\ [][(pc = "running" /\ metrics.action_history # <<>>
             /\ metrics.action_history[Len(metrics.action_history)].action
                    \in {"scraper", "fetcher"})
          => metrics' = metrics]_vars

\* a run executed the parser and then the scraper, and returned
C39_Witness ==
    /\ pc = "returned"
    /\ Len(RunExecutions) = 2
    /\ RunExecutions[1].action = "parser"
    /\ RunExecutions[2].action = "scraper"

\* The manager holds a browser without holding the driver that launched it,
\* or holds one whose driver close has stopped
BrowserWithoutDriver ==
    /\ bm.browser # 0
    /\ \/ bm.playwright # bm.launched_by[bm.browser]
       \/ bm.launched_by[bm.browser] \in bm.stopped

\* C40: under every interleaving of calls of get_browser and close, a
\* manager that holds a browser holds the driver that launched it, and that
\* driver has not been stopped; and no call of get_browser returns a
\* browser that close has closed or whose driver close has stopped.
C40_BrowserHasRunningDriver ==
    /\ ~BrowserWithoutDriver
    /\ \A c \in Callers : bm.pc[c] = "done" => ~bm.dead[c]
=============================================================================
